---- MODULE Spec2Model ----
(***************************************************************************)
(* han-parse: the legacy (HWP) table reader of han_parser.py and the       *)
(* HWPX reader and archive editor of hwpx_parser.py, as state machines.    *)
(*                                                                         *)
(* Python strings are modelled as sequences of one-character strings, so   *)
(* that concatenation order, lengths, slices and pattern matches are the   *)
(* ones the code computes.                                                 *)
(***************************************************************************)
EXTENDS Integers, Sequences, FiniteSets, TLC

VARIABLES
    \* ---- han_parser.parse_tables ----
    pc,                  \* "run": parse_tables reads, then "returned";
                         \* "text": parse_hwp reads, then "text_returned"
    tables,              \* parse_tables: tables (the list being built)
    current_table_info,  \* None or [rows, cols]
    current_cells_data,  \* list of [row, col, text]
    in_table,            \* bool
    section_idx,         \* index of the section being read
    nrec,                \* number of records consumed so far
    last_rec,            \* the record consumed by the last step
    built_from,          \* arguments of each _build_table_from_cells call that returned a table
    result,              \* return value of parse_tables (once pc = "returned") or of
                         \* parse_hwp (once pc = "text_returned": [text |-> str] or None)
    segment,             \* the table segment being read: None before the first TableControl
                         \* of a section, else the dimensions of its last TableBody (or
                         \* None) and the coordinates of its TableCell records
    \* ---- han_parser.parse_hwp ----
    text_content,        \* parse_hwp: text_content (the list being built)
    stream,              \* the records parse_hwp has consumed so far
    \* ---- a caller of parse_hwpx and save_hwpx_with_tables ----
    fs,                  \* the files: path -> archive (NoFile where there is none)
    session_tables,      \* the grids the caller holds: tables_data of the next save
    estep,               \* "start", "parsed", "updated", "saved", "reparsed"
    parsed,              \* what parse_hwpx returned for the original
    saved,               \* what save_hwpx_with_tables returned
    reparsed,            \* what parse_hwpx returned for the saved archive
    \* ---- hwpx_parser.py: one call of a function of the editor ----
    call,                \* the function and its arguments
    returned,            \* its return value, once it has returned
    \* ---- app.py: the upload and session endpoints ----
    uploads,             \* UPLOAD_FOLDER: file name -> file (NoFile where there is none)
    temp,                \* TEMP_FOLDER: file name -> content (Absent where there is none)
    sessions,            \* the sessions created so far: identifier, uploaded file, and the
                         \* text and grids as the requests naming the session made them
    request,             \* the request handled by the last step
    response,            \* its response
    inflight,            \* edit requests between their load and their store
    writes               \* what each store to a session's grid file wrote

tvars == <<text_content, stream>>
lvars == <<pc, tables, current_table_info, current_cells_data, in_table,
           section_idx, nrec, last_rec, built_from, result, segment, tvars>>
evars == <<fs, session_tables, estep, parsed, saved, reparsed>>
cvars == <<call, returned>>
avars == <<uploads, temp, sessions, request, response, inflight, writes>>
vars == <<lvars, evars, cvars, avars>>

\* Python None, as a value comparable with the dicts it stands in for
None == [none |-> TRUE]

\* the parts of the state that a run of one component does not use
LOff ==
    /\ pc = "off"
    /\ tables = <<>>
    /\ current_table_info = None
    /\ current_cells_data = <<>>
    /\ in_table = FALSE
    /\ section_idx = 0
    /\ nrec = 0
    /\ last_rec = [type |-> "start"]
    /\ built_from = <<>>
    /\ result = <<>>
    /\ segment = None
    /\ text_content = <<>>
    /\ stream = <<>>

EOff ==
    /\ fs = None
    /\ session_tables = <<>>
    /\ estep = "off"
    /\ parsed = None
    /\ saved = None
    /\ reparsed = None

COff ==
    /\ call = None
    /\ returned = None

AOff ==
    /\ uploads = None
    /\ temp = None
    /\ sessions = <<>>
    /\ request = None
    /\ response = None
    /\ inflight = None
    /\ writes = <<>>

----------------------------------------------------------------------------
(* Bounds of the legacy record stream *)

MaxRecords == 6
MaxSections == 2

\* values the decoder reports for rows/cols of a TableBody and row/col of a TableCell
DimValues == 0..2
CoordValues == 0..1
\* the string chunks of one ParaText record, already filtered to str chunks
ChunkLists == { <<>>, <<<<"a">>>>, <<<<"b">>, <<"c">>>> }

\* records parse_hwp reads in one run
MaxTextRecords == 4

\* a chunk of a ParaText record is a tuple (range, content); content is a str, or a dict for
\* a control character
StrChunk(text) == [is_str |-> TRUE, content |-> text]
CtrlChunk == [is_str |-> FALSE, content |-> <<>>]

\* content['chunks'] of the ParaText records of the model
RawChunkLists ==
    { <<>>, <<StrChunk(<<"a">>)>>, <<StrChunk(<<"b">>), CtrlChunk, StrChunk(<<"c">>)>>,
      <<CtrlChunk>> }

\* the record types that are not ParaText
OtherTypes == { "TableControl", "TableCell", "Other" }

----------------------------------------------------------------------------
(* Pure helpers *)

RECURSIVE Join(_)
\* ''.join(parts)
Join(parts) == IF parts = <<>> THEN <<>> ELSE Head(parts) \o Join(Tail(parts))

Last(s) == s[Len(s)]

\* [[''] * cols for _ in range(rows)]
EmptyGrid(rows, cols) == [r \in 1..rows |-> [c \in 1..cols |-> <<>>]]

RECURSIVE Scatter(_, _, _, _)
\* the for-loop of _build_table_from_cells over cells_data (0-based row/col)
Scatter(table_rows, cells_data, rows, cols) ==
    IF cells_data = <<>> THEN table_rows
    ELSE LET cell == Head(cells_data)
             row_idx == cell.row
             col_idx == cell.col
             next == IF 0 <= row_idx /\ row_idx < rows /\ 0 <= col_idx /\ col_idx < cols
                     THEN [table_rows EXCEPT ![row_idx + 1][col_idx + 1] = cell.text]
                     ELSE table_rows
         IN Scatter(next, Tail(cells_data), rows, cols)

\* a plausible slip: the bounds test dropped on the column, writes clamped into the last column
BuildClampCols(table_info, cells_data, sidx) ==
    LET rows == table_info.rows
        cols == table_info.cols
        clamp(c) == IF c < cols THEN c ELSE cols - 1
    IN IF rows = 0 \/ cols = 0 THEN None
       ELSE [section |-> sidx,
             rows |-> Scatter(EmptyGrid(rows, cols),
                              [k \in 1..Len(cells_data) |->
                                  [cells_data[k] EXCEPT !.col = clamp(@)]], rows, cols),
             row_count |-> rows, col_count |-> cols]

\* _build_table_from_cells
BuildTableFromCells(table_info, cells_data, sidx) ==
    LET rows == table_info.rows
        cols == table_info.cols
    IN IF rows = 0 \/ cols = 0 THEN None
       ELSE [section |-> sidx,
             rows |-> Scatter(EmptyGrid(rows, cols), cells_data, rows, cols),
             row_count |-> rows, col_count |-> cols]

----------------------------------------------------------------------------
(* han_parser.parse_tables, one action per record of section.models() *)

LInit ==
    /\ pc \in {"run", "text"}
    /\ tables = <<>>
    /\ current_table_info = None
    /\ current_cells_data = <<>>
    /\ in_table = FALSE
    /\ section_idx = 0
    /\ nrec = 0
    /\ last_rec = [type |-> "start"]
    /\ built_from = <<>>
    /\ result = <<>>
    /\ segment = None
    /\ text_content = <<>>
    /\ stream = <<>>
    /\ EOff
    /\ COff
    /\ AOff

\* "if current_table_info and current_cells_data: table = _build...; if table: append"
Finalize ==
    IF current_table_info # None /\ current_cells_data # <<>>
    THEN LET table == BuildTableFromCells(current_table_info, current_cells_data, section_idx)
         IN IF table # None
            THEN /\ tables' = Append(tables, table)
                 /\ built_from' = Append(built_from,
                        [info |-> current_table_info, cells |-> current_cells_data])
            ELSE UNCHANGED <<tables, built_from>>
    ELSE UNCHANGED <<tables, built_from>>

CanRecv == pc = "run" /\ nrec < MaxRecords

\* a plausible slip: the pending cells are not cleared when a new table starts
RecvTableControlKeepCells ==
    /\ CanRecv
    /\ Finalize
    /\ current_table_info' = None
    /\ current_cells_data' = current_cells_data
    /\ in_table' = TRUE
    /\ nrec' = nrec + 1
    /\ last_rec' = [type |-> "TableControl"]
    /\ segment' = [body |-> None, cells |-> <<>>]
    /\ UNCHANGED <<pc, section_idx, result, tvars, avars>>
    /\ UNCHANGED <<evars, cvars, avars>>

\* a TableControl record
RecvTableControl ==
    /\ CanRecv
    /\ Finalize
    /\ current_table_info' = None
    /\ current_cells_data' = <<>>
    /\ in_table' = TRUE
    /\ nrec' = nrec + 1
    /\ last_rec' = [type |-> "TableControl"]
    /\ segment' = [body |-> None, cells |-> <<>>]
    /\ UNCHANGED <<pc, section_idx, result, tvars, avars>>
    /\ UNCHANGED <<evars, cvars, avars>>

\* a TableBody record
RecvTableBody ==
    /\ CanRecv
    /\ \E rows \in DimValues, cols \in DimValues :
          /\ current_table_info' = [rows |-> rows, cols |-> cols]
          /\ last_rec' = [type |-> "TableBody", rows |-> rows, cols |-> cols]
          /\ segment' = IF segment = None THEN None
                        ELSE [segment EXCEPT !.body = [rows |-> rows, cols |-> cols]]
    /\ nrec' = nrec + 1
    /\ UNCHANGED <<pc, tables, current_cells_data, in_table, section_idx, built_from, result,
                   tvars, avars>>
    /\ UNCHANGED <<evars, cvars, avars>>

\* a TableCell record
RecvTableCell ==
    /\ CanRecv
    /\ \E row \in CoordValues, col \in CoordValues :
          /\ current_cells_data' =
                IF in_table
                THEN Append(current_cells_data, [row |-> row, col |-> col, text |-> <<>>])
                ELSE current_cells_data
          /\ last_rec' = [type |-> "TableCell", row |-> row, col |-> col]
          /\ segment' = IF segment = None THEN None
                        ELSE [segment EXCEPT !.cells = Append(@, [row |-> row, col |-> col])]
    /\ nrec' = nrec + 1
    /\ UNCHANGED <<pc, tables, current_table_info, in_table, section_idx, built_from, result,
                   tvars, avars>>
    /\ UNCHANGED <<evars, cvars, avars>>

\* a plausible slip: current_cells_data[0] instead of current_cells_data[-1]
RecvParaTextFirstCell ==
    /\ CanRecv
    /\ \E text_parts \in ChunkLists :
          /\ current_cells_data' =
                IF text_parts # <<>> /\ current_cells_data # <<>> /\ in_table
                THEN LET existing == current_cells_data[1].text
                     IN [current_cells_data EXCEPT ![1].text = existing \o Join(text_parts)]
                ELSE current_cells_data
          /\ last_rec' = [type |-> "ParaText", text_parts |-> text_parts]
    /\ nrec' = nrec + 1
    /\ UNCHANGED <<pc, tables, current_table_info, in_table, section_idx, built_from, result,
                   segment, tvars, avars>>
    /\ UNCHANGED <<evars, cvars, avars>>

\* a ParaText record
RecvParaText ==
    /\ CanRecv
    /\ \E text_parts \in ChunkLists :
          /\ current_cells_data' =
                IF text_parts # <<>> /\ current_cells_data # <<>> /\ in_table
                THEN LET n == Len(current_cells_data)
                         existing == current_cells_data[n].text
                     IN [current_cells_data EXCEPT ![n].text = existing \o Join(text_parts)]
                ELSE current_cells_data
          /\ last_rec' = [type |-> "ParaText", text_parts |-> text_parts]
    /\ nrec' = nrec + 1
    /\ UNCHANGED <<pc, tables, current_table_info, in_table, section_idx, built_from, result,
                   segment, tvars, avars>>
    /\ UNCHANGED <<evars, cvars, avars>>

\* a plausible slip: a record that belongs to no table closes the table
RecvOtherClosesTable ==
    /\ CanRecv
    /\ nrec' = nrec + 1
    /\ in_table' = FALSE
    /\ last_rec' = [type |-> "Other"]
    /\ UNCHANGED <<pc, tables, current_table_info, current_cells_data,
                   section_idx, built_from, result, segment, tvars, avars>>
    /\ UNCHANGED <<evars, cvars>>

\* a record of any other type, or a model that is not a dict
RecvOther ==
    /\ CanRecv
    /\ nrec' = nrec + 1
    /\ last_rec' = [type |-> "Other"]
    /\ UNCHANGED <<pc, tables, current_table_info, current_cells_data, in_table,
                   section_idx, built_from, result, segment, tvars, avars>>
    /\ UNCHANGED <<evars, cvars, avars>>

\* section.models() is exhausted and another section follows
EndSection ==
    /\ pc = "run"
    /\ section_idx + 1 < MaxSections
    /\ Finalize
    /\ current_table_info' = None
    /\ current_cells_data' = <<>>
    /\ in_table' = FALSE
    /\ section_idx' = section_idx + 1
    /\ last_rec' = [type |-> "EndSection"]
    /\ segment' = None
    /\ UNCHANGED <<pc, nrec, result, tvars, avars>>
    /\ UNCHANGED <<evars, cvars, avars>>

\* the last section is exhausted: "return tables"
ReturnTables ==
    /\ pc = "run"
    /\ Finalize
    /\ pc' = "returned"
    /\ result' = tables'
    /\ last_rec' = [type |-> "EndStream"]
    /\ UNCHANGED <<current_table_info, current_cells_data, in_table, section_idx, nrec,
                   segment, tvars, avars>>
    /\ UNCHANGED <<evars, cvars, avars>>

\* a plausible slip: the tables completed so far are returned when the decoder raises
DecoderRaisesPartial ==
    /\ pc = "run"
    /\ pc' = "returned"
    /\ result' = tables
    /\ last_rec' = [type |-> "Raise"]
    /\ UNCHANGED <<tables, current_table_info, current_cells_data, in_table,
                   section_idx, nrec, built_from, segment, tvars, avars>>
    /\ UNCHANGED <<evars, cvars, avars>>

\* the decoder is missing (ImportError) or raises while the stream is read
DecoderRaises ==
    /\ pc = "run"
    /\ pc' = "returned"
    /\ result' = <<>>
    /\ last_rec' = [type |-> "Raise"]
    /\ UNCHANGED <<tables, current_table_info, current_cells_data, in_table,
                   section_idx, nrec, built_from, segment, tvars, avars>>
    /\ UNCHANGED <<evars, cvars, avars>>

----------------------------------------------------------------------------
(* han_parser.parse_hwp, one action per record of section.models() *)

CanRecvText == pc = "text" /\ nrec < MaxTextRecords

\* the str contents of chunks, in order: what the inner for-loop appends to text_content
StrContents(chunks) ==
    LET strs == SelectSeq(chunks, LAMBDA chunk : chunk.is_str)
    IN [k \in 1..Len(strs) |-> strs[k].content]

\* a plausible slip: the newline is appended after every chunk instead of after the record
TextRecvParaTextNewlinePerChunk ==
    /\ CanRecvText
    /\ \E chunks \in RawChunkLists :
          /\ text_content' = text_content
                \o Join([k \in 1..Len(StrContents(chunks)) |->
                            <<StrContents(chunks)[k], <<"\n">>>>])
          /\ last_rec' = [type |-> "ParaText", chunks |-> chunks]
          /\ stream' = Append(stream, last_rec')
    /\ nrec' = nrec + 1
    /\ UNCHANGED <<pc, tables, current_table_info, current_cells_data, in_table,
                   section_idx, built_from, result, segment, avars>>
    /\ UNCHANGED <<evars, cvars, avars>>

\* a ParaText record: its str chunks are appended, then one '\n'
TextRecvParaText ==
    /\ CanRecvText
    /\ \E chunks \in RawChunkLists :
          /\ text_content' = text_content \o StrContents(chunks) \o << <<"\n">> >>
          /\ last_rec' = [type |-> "ParaText", chunks |-> chunks]
          /\ stream' = Append(stream, last_rec')
    /\ nrec' = nrec + 1
    /\ UNCHANGED <<pc, tables, current_table_info, current_cells_data, in_table,
                   section_idx, built_from, result, segment, avars>>
    /\ UNCHANGED <<evars, cvars, avars>>

\* a record of any other type (table records included), or a model that is not a dict
TextRecvOther ==
    /\ CanRecvText
    /\ \E type \in OtherTypes :
          /\ last_rec' = [type |-> type]
          /\ stream' = Append(stream, last_rec')
    /\ nrec' = nrec + 1
    /\ UNCHANGED <<pc, tables, current_table_info, current_cells_data, in_table,
                   section_idx, built_from, result, segment, text_content, avars>>
    /\ UNCHANGED <<evars, cvars, avars>>

\* section.models() is exhausted and another section follows
TextEndSection ==
    /\ pc = "text"
    /\ section_idx + 1 < MaxSections
    /\ section_idx' = section_idx + 1
    /\ last_rec' = [type |-> "EndSection"]
    /\ UNCHANGED <<pc, tables, current_table_info, current_cells_data, in_table,
                   nrec, built_from, result, segment, tvars, avars>>
    /\ UNCHANGED <<evars, cvars, avars>>

\* the last section is exhausted: "return ''.join(text_content)"
ReturnText ==
    /\ pc = "text"
    /\ pc' = "text_returned"
    /\ result' = [text |-> Join(text_content)]
    /\ last_rec' = [type |-> "EndStream"]
    /\ UNCHANGED <<tables, current_table_info, current_cells_data, in_table,
                   section_idx, nrec, built_from, segment, tvars, avars>>
    /\ UNCHANGED <<evars, cvars, avars>>

\* the decoder is missing (ImportError) or raises while the stream is read: "return None"
TextDecoderRaises ==
    /\ pc = "text"
    /\ pc' = "text_returned"
    /\ result' = None
    /\ last_rec' = [type |-> "Raise"]
    /\ UNCHANGED <<tables, current_table_info, current_cells_data, in_table,
                   section_idx, nrec, built_from, segment, tvars, avars>>
    /\ UNCHANGED <<evars, cvars, avars>>

LNext ==
    \/ TextRecvParaText
    \/ TextRecvOther
    \/ TextEndSection
    \/ ReturnText
    \/ TextDecoderRaises
    \/ RecvTableControl
    \/ RecvTableBody
    \/ RecvTableCell
    \/ RecvParaText
    \/ RecvOther
    \/ EndSection
    \/ ReturnTables
    \/ DecoderRaises

SpecLegacy == LInit /\ [][LNext]_vars

----------------------------------------------------------------------------
(* Strings and the regular expressions of hwpx_parser.py.                  *)
(* Offsets are 0-based as in Python: At(s, i) is s[i], PySlice(s, a, b) is *)
(* s[a:b].                                                                 *)

MinOf(S) == CHOOSE x \in S : \A y \in S : x <= y
MaxOf(S) == CHOOSE x \in S : \A y \in S : y <= x

At(s, i) == s[i + 1]

\* a slice bound as Python clamps it (the offsets of the code are never negative)
Clamp(i, n) == IF i > n THEN n ELSE i

\* s[a:b]
PySlice(s, a, b) == SubSeq(s, Clamp(a, Len(s)) + 1, Clamp(b, Len(s)))

\* s[:b] and s[a:]
PyTo(s, b) == PySlice(s, 0, b)
PyFrom(s, a) == PySlice(s, a, Len(s))

\* s.startswith(lit, i)
MatchAt(s, i, lit) ==
    /\ i + Len(lit) <= Len(s)
    /\ \A k \in 1..Len(lit) : s[i + k] = lit[k]

\* s.find(lit, from): the least offset >= from where lit occurs, -1 if none
FindLit(s, from, lit) ==
    LET H == { i \in from..(Len(s) - Len(lit)) : MatchAt(s, i, lit) }
    IN IF H = {} THEN -1 ELSE MinOf(H)

FindChar(s, from, ch) == FindLit(s, from, <<ch>>)

\* \s of the re module, over the characters of the model
IsSpace(ch) == ch \in {" ", "\n", "\r", "\t"}

TBL_OPEN == <<"<", "h", "p", ":", "t", "b", "l">>
TBL_CLOSE == <<"<", "/", "h", "p", ":", "t", "b", "l", ">">>
TR_OPEN == <<"<", "h", "p", ":", "t", "r">>
TR_CLOSE == <<"<", "/", "h", "p", ":", "t", "r", ">">>
TC_OPEN == <<"<", "h", "p", ":", "t", "c">>
TC_CLOSE == <<"<", "/", "h", "p", ":", "t", "c", ">">>
T_OPEN == <<"<", "h", "p", ":", "t", ">">>
T_CLOSE == <<"<", "/", "h", "p", ":", "t", ">">>
RUN_OPEN == <<"<", "h", "p", ":", "r", "u", "n">>
RUN_CLOSE == <<"<", "/", "h", "p", ":", "r", "u", "n", ">">>

NoMatch == [start |-> -1, end |-> -1]

\* re.search(r'(<X[^>]*>)(.*?)(</X>)', s[pos:], re.DOTALL) with open = '<X', close = '</X>':
\* the leftmost offset i >= pos where open occurs, the tag closes at the first '>' after it
\* and close occurs somewhere after that '>'; the match ends with the first such close
PairSearch(s, pos, open, close) ==
    LET gt(i) == FindChar(s, i + Len(open), ">")
        cl(i) == FindLit(s, gt(i) + 1, close)
        H == { i \in pos..(Len(s) - Len(open)) :
                  MatchAt(s, i, open) /\ gt(i) >= 0 /\ cl(i) >= 0 }
    IN IF H = {} THEN NoMatch
       ELSE LET i == MinOf(H) IN [start |-> i, end |-> cl(i) + Len(close)]

RECURSIVE FindIter(_, _, _, _)
\* list(re.finditer(pattern, s, re.DOTALL)): the non-overlapping matches, left to right
FindIter(s, pos, open, close) ==
    LET m == PairSearch(s, pos, open, close)
    IN IF m = NoMatch THEN <<>> ELSE <<m>> \o FindIter(s, m.end, open, close)

\* re.subn(r'(<hp:t>)(.*?)(</hp:t>)', replace_first_t, tc_content, count=1): no re.DOTALL,
\* so the text between the tags may not hold a newline
FirstT(s) ==
    LET cl(i) == FindLit(s, i + Len(T_OPEN), T_CLOSE)
        H == { i \in 0..(Len(s) - Len(T_OPEN)) :
                  /\ MatchAt(s, i, T_OPEN)
                  /\ cl(i) >= 0
                  /\ \A q \in (i + Len(T_OPEN))..(cl(i) - 1) : At(s, q) # "\n" }
    IN IF H = {} THEN NoMatch
       ELSE LET i == MinOf(H) IN [start |-> i, end |-> cl(i) + Len(T_CLOSE)]

\* the '/' that group 2 of r'(<hp:run[^>]*)(/\s*>)' starts with, for the tag opening at i:
\* a '/' before the tag's '>' with only white space between them; -1 if there is none
SlashOf(s, i) ==
    LET g == FindChar(s, i + Len(RUN_OPEN), ">")
        P == IF g < 0 THEN {}
             ELSE { p \in (i + Len(RUN_OPEN))..(g - 1) :
                       At(s, p) = "/" /\ \A q \in (p + 1)..(g - 1) : IsSpace(At(s, q)) }
    IN IF P = {} THEN -1 ELSE MinOf(P)

\* the first match of r'(<hp:run[^>]*)(/\s*>)': start of group 1, start of group 2, end
FirstSelfClosingRun(s) ==
    LET H == { i \in 0..(Len(s) - Len(RUN_OPEN)) : MatchAt(s, i, RUN_OPEN) /\ SlashOf(s, i) >= 0 }
    IN IF H = {} THEN [start |-> -1, slash |-> -1, end |-> -1]
       ELSE LET i == MinOf(H)
            IN [start |-> i, slash |-> SlashOf(s, i),
                end |-> FindChar(s, i + Len(RUN_OPEN), ">") + 1]

\* the first match of r'(<hp:run[^>]*>)(</hp:run>)': start, end of group 1, end
FirstEmptyRun(s) ==
    LET gt(i) == FindChar(s, i + Len(RUN_OPEN), ">")
        H == { i \in 0..(Len(s) - Len(RUN_OPEN)) :
                  MatchAt(s, i, RUN_OPEN) /\ gt(i) >= 0 /\ MatchAt(s, gt(i) + 1, RUN_CLOSE) }
    IN IF H = {} THEN [start |-> -1, mid |-> -1, end |-> -1]
       ELSE LET i == MinOf(H)
            IN [start |-> i, mid |-> gt(i) + 1, end |-> gt(i) + 1 + Len(RUN_CLOSE)]

----------------------------------------------------------------------------
(* hwpx_parser.py, the pattern-based editor *)

\* _modify_cell_text_regex
ModifyCellTextRegex(tc_content, new_text) ==
    LET m1 == FirstT(tc_content)
        m2 == FirstSelfClosingRun(tc_content)
        m3 == FirstEmptyRun(tc_content)
    IN IF m1.start >= 0
       THEN \* match.group(1) + new_text + match.group(3)
            PyTo(tc_content, m1.start) \o T_OPEN \o new_text \o T_CLOSE
                \o PyFrom(tc_content, m1.end)
       ELSE IF m2.start >= 0
       THEN \* match.group(1) + '><hp:t>{new_text}</hp:t></hp:run>'
            PyTo(tc_content, m2.slash) \o <<">">> \o T_OPEN \o new_text \o T_CLOSE
                \o RUN_CLOSE \o PyFrom(tc_content, m2.end)
       ELSE IF m3.start >= 0
       THEN \* match.group(1) + '<hp:t>{new_text}</hp:t>' + match.group(2)
            PyTo(tc_content, m3.mid) \o T_OPEN \o new_text \o T_CLOSE
                \o PyFrom(tc_content, m3.mid)
       ELSE tc_content

\* result and offset of a loop after one more round: the span of match m, shifted by the
\* offset, is replaced by modified and the offset grows by the difference in length
\*   result = result[:start] + modified + result[end:]; offset += len_diff
Splice(st, m, modified) ==
    LET start == m.start + st.offset
        end == m.end + st.offset
    IN [result |-> PyTo(st.result, start) \o modified \o PyFrom(st.result, end),
        offset |-> st.offset + (Len(modified) - Len(PySlice(st.result, start, end)))]

\* the text that a loop in state st finds at match m: result[start:end]
Matched(st, m) == PySlice(st.result, m.start + st.offset, m.end + st.offset)

RECURSIVE RowLoop(_, _, _, _)
\* the for-loop of _modify_single_row_regex from col_idx on (0-based); st is result, offset
RowLoop(tc_matches, row_data, col_idx, st) ==
    IF col_idx >= Len(tc_matches) \/ col_idx >= Len(row_data) THEN st.result
    ELSE RowLoop(tc_matches, row_data, col_idx + 1,
                 Splice(st, tc_matches[col_idx + 1],
                        ModifyCellTextRegex(Matched(st, tc_matches[col_idx + 1]),
                                            row_data[col_idx + 1])))

\* _modify_single_row_regex
ModifySingleRowRegex(tr_content, row_data) ==
    RowLoop(FindIter(tr_content, 0, TC_OPEN, TC_CLOSE), row_data, 0,
            [result |-> tr_content, offset |-> 0])

RECURSIVE TableLoop(_, _, _, _)
\* the for-loop of _modify_single_table_regex from row_idx on (0-based); st is result, offset
TableLoop(tr_matches, new_rows, row_idx, st) ==
    IF row_idx >= Len(tr_matches) \/ row_idx >= Len(new_rows) THEN st.result
    ELSE TableLoop(tr_matches, new_rows, row_idx + 1,
                   Splice(st, tr_matches[row_idx + 1],
                          ModifySingleRowRegex(Matched(st, tr_matches[row_idx + 1]),
                                               new_rows[row_idx + 1])))

\* _modify_single_table_regex
ModifySingleTableRegex(tbl_content, new_rows) ==
    TableLoop(FindIter(tbl_content, 0, TR_OPEN, TR_CLOSE), new_rows, 0,
              [result |-> tbl_content, offset |-> 0])

RECURSIVE TablesLoop(_, _, _, _, _)
\* the for-loop of _modify_tables_with_regex from table_idx on (0-based): the spans are those
\* of the matches in the original content (orig) and are not shifted; the splice is made in
\* the current result (cur)
\*   tbl_content = match.group(0)
\*   result = result[:match.start()] + modified_tbl + result[match.end():]
TablesLoop(tbl_matches, tables_data, table_idx, orig, cur) ==
    IF table_idx >= Len(tbl_matches) \/ table_idx >= Len(tables_data) THEN cur
    ELSE LET new_rows == tables_data[table_idx + 1].rows
             m == tbl_matches[table_idx + 1]
         IN IF new_rows = <<>>
            THEN TablesLoop(tbl_matches, tables_data, table_idx + 1, orig, cur)
            ELSE TablesLoop(tbl_matches, tables_data, table_idx + 1, orig,
                            PyTo(cur, m.start)
                            \o ModifySingleTableRegex(PySlice(orig, m.start, m.end), new_rows)
                            \o PyFrom(cur, m.end))

\* the body of _modify_tables_with_regex, given the matches of the table pattern in content
ModifyTables(tbl_matches, content, tables_data) ==
    IF tbl_matches = <<>> THEN content
    ELSE TablesLoop(tbl_matches, tables_data, 0, content, content)

\* _modify_tables_with_regex
ModifyTablesWithRegex(content, tables_data) ==
    ModifyTables(FindIter(content, 0, TBL_OPEN, TBL_CLOSE), content, tables_data)

----------------------------------------------------------------------------
(* Files.  A file is a sequence of bytes; the bytes of the model are the   *)
(* ASCII characters and BadByte, a byte that no UTF-8 text contains.       *)

BadByte == "0xFF"

\* an exception instead of a text
Raised == [raised |-> TRUE, text |-> <<>>]
Text(t) == [raised |-> FALSE, text |-> t]

\* open(path, 'r', encoding='utf-8').read(): decodes, and translates '\r\n' and '\r' to '\n'
ReadText(bytes) ==
    IF \E i \in 1..Len(bytes) : bytes[i] = BadByte THEN Raised
    ELSE LET marked == [i \in 1..Len(bytes) |->
                          IF bytes[i] = "\n" /\ i > 1 /\ bytes[i - 1] = "\r" THEN "drop"
                          ELSE IF bytes[i] = "\r" THEN "\n"
                          ELSE bytes[i]]
         IN Text(SelectSeq(marked, LAMBDA ch : ch # "drop"))

\* open(path, 'w', encoding='utf-8').write(content), on a system whose line separator is '\n'
WriteText(content) == content

\* f.read().decode('utf-8') of a zip entry: decodes, keeps the line ends
DecodeUtf8(bytes) ==
    IF \E i \in 1..Len(bytes) : bytes[i] = BadByte THEN Raised ELSE Text(bytes)

----------------------------------------------------------------------------
(* xml.etree.ElementTree.fromstring, for documents made of elements with   *)
(* attributes and character data with the entities &amp; &lt; &gt;, whose  *)
(* namespace prefixes are declared on the root element.                    *)

XmlError == [k |-> "error"]

IsNameChar(ch) == ~IsSpace(ch) /\ ch \notin {"<", ">", "/", "=", "\"", "&", "'"}

AMP == <<"&", "a", "m", "p", ";">>
LT == <<"&", "l", "t", ";">>
GT == <<"&", "g", "t", ";">>

\* stands in decoded character data for a '&' that starts no reference
BadRef == "[bad reference]"

HasBadRef(text) == \E i \in 1..Len(text) : text[i] = BadRef

RECURSIVE DecodeChars(_, _)
\* character data from offset i on with its entity references replaced; BadRef for a '&'
\* that starts no reference
DecodeChars(raw, i) ==
    IF i >= Len(raw) THEN <<>>
    ELSE LET ent == IF MatchAt(raw, i, AMP) THEN [ch |-> "&", n |-> Len(AMP)]
                    ELSE IF MatchAt(raw, i, LT) THEN [ch |-> "<", n |-> Len(LT)]
                    ELSE IF MatchAt(raw, i, GT) THEN [ch |-> ">", n |-> Len(GT)]
                    ELSE [ch |-> At(raw, i), n |-> 1]
         IN IF At(raw, i) = "&" /\ ent.n = 1 THEN <<BadRef>>
            ELSE <<ent.ch>> \o DecodeChars(raw, i + ent.n)

\* the offset after the white space that starts at offset i
SkipSpace(b, i) ==
    LET N == { j \in i..Len(b) : j = Len(b) \/ ~IsSpace(At(b, j)) } IN MinOf(N)

\* the offset after the name that starts at offset i
SkipName(b, i) ==
    LET N == { j \in i..Len(b) : j = Len(b) \/ ~IsNameChar(At(b, j)) } IN MinOf(N)

RECURSIVE AttrsOk(_, _)
\* b[i:] is a list of attributes name="value", each after white space, then white space
AttrsOk(b, i) ==
    LET j == SkipSpace(b, i)
        n == SkipName(b, j)
        q == FindChar(b, n + 2, "\"")
    IN IF j = Len(b) THEN TRUE
       ELSE /\ j > i
            /\ n > j
            /\ MatchAt(b, n, <<"=", "\"">>)
            /\ q >= 0
            /\ \A p \in (n + 2)..(q - 1) : At(b, p) \notin {"<", "&"}
            /\ AttrsOk(b, q + 1)

\* the token of the tag whose text between '<' and '>' is body
TagToken(body) ==
    IF body = <<>> THEN XmlError
    ELSE IF Head(body) = "/"
    THEN LET n == SkipName(body, 1)
         IN IF n > 1 /\ SkipSpace(body, n) = Len(body)
            THEN [k |-> "close", name |-> PySlice(body, 1, n)]
            ELSE XmlError
    ELSE LET empty == Last(body) = "/"
             b == IF empty THEN PyTo(body, Len(body) - 1) ELSE body
             n == SkipName(b, 0)
         IN IF n > 0 /\ AttrsOk(b, n)
            THEN [k |-> IF empty THEN "empty" ELSE "open", name |-> PyTo(b, n)]
            ELSE XmlError

\* the offsets of s that hold the character ch, in increasing order
Offsets(s, ch) == SelectSeq([i \in 1..Len(s) |-> i - 1], LAMBDA i : At(s, i) = ch)

NoToken == [k |-> "none"]

\* the character data s[a:b] as a token; NoToken if it is empty
TextToken(s, a, b) ==
    IF a >= b THEN NoToken
    ELSE LET text == DecodeChars(PySlice(s, a, b), 0)
         IN IF HasBadRef(text) THEN XmlError ELSE [k |-> "text", text |-> text]

\* the tags and character data of s, in order; XmlError stands for a piece that is neither
Tokens(s) ==
    LET lts == Offsets(s, "<")
        n == Len(lts)
        gt(k) == FindChar(s, lts[k] + 1, ">")
        tag(k) == IF gt(k) < 0 \/ (k < n /\ gt(k) > lts[k + 1]) THEN XmlError
                  ELSE TagToken(PySlice(s, lts[k] + 1, gt(k)))
        after(k) == IF gt(k) < 0 THEN NoToken
                    ELSE TextToken(s, gt(k) + 1, IF k < n THEN lts[k + 1] ELSE Len(s))
        slots == [j \in 1..(2 * n + 1) |->
                    IF j = 1 THEN TextToken(s, 0, IF n = 0 THEN Len(s) ELSE lts[1])
                    ELSE IF j % 2 = 0 THEN tag(j \div 2)
                    ELSE after(j \div 2)]
    IN SelectSeq(slots, LAMBDA t : t # NoToken)

IsBlank(text) == \A i \in 1..Len(text) : IsSpace(text[i])

Delta(t) == IF t.k = "open" THEN 1 ELSE IF t.k = "close" THEN -1 ELSE 0

RECURSIVE Running(_, _, _, _)
\* base + Delta(toks[lo]) + ... + Delta(toks[i]) for i = lo..hi
Running(toks, lo, hi, base) ==
    IF lo > hi THEN <<>>
    ELSE IF lo = hi THEN <<base + Delta(toks[lo])>>
    ELSE LET mid == (lo + hi) \div 2
             left == Running(toks, lo, mid, base)
         IN left \o Running(toks, mid + 1, hi, Last(left))

\* the index of the token that closes the element starting at token i (i itself for an
\* empty element), 0 if there is none; depth[j] is the number of elements open after token j
EndOf(toks, depth, i) ==
    IF toks[i].k = "empty" THEN i
    ELSE LET C == { j \in (i + 1)..Len(toks) : toks[j].k = "close" /\ depth[j] = depth[i] - 1 }
         IN IF C = {} THEN 0 ELSE MinOf(C)

\* the document with those tokens and that nesting depth after each token; ok is false
\* where fromstring raises ParseError: a piece that is no tag and no character data, tags
\* that do not nest, text outside the root element, or not exactly one root element
XmlDocument(toks, depth) ==
    LET n == Len(toks)
        roots == { i \in 1..n : \/ toks[i].k = "open" /\ depth[i] = 1
                                \/ toks[i].k = "empty" /\ depth[i] = 0 }
    IN [toks |-> toks, depth |-> depth,
        ok |-> /\ \A i \in 1..n : toks[i].k # "error"
               /\ \A i \in 1..n : depth[i] >= 0
               /\ n > 0 /\ depth[n] = 0
               /\ Cardinality(roots) = 1
               /\ \A i \in 1..n : toks[i].k = "text" /\ depth[i] = 0 => IsBlank(toks[i].text)
               /\ \A i \in 1..n : toks[i].k = "open" =>
                      LET j == EndOf(toks, depth, i)
                      IN j > 0 /\ toks[j].name = toks[i].name]

XmlParseTokens(toks) == XmlDocument(toks, Running(toks, 1, Len(toks), 0))

\* ET.fromstring(s)
XmlParse(s) == XmlParseTokens(Tokens(s))

\* the end of the element that starts at token i of the parsed document
End(doc, i) == EndOf(doc.toks, doc.depth, i)

\* the part of a tag name after its prefix
LocalName(name) ==
    LET c == FindChar(name, 0, ":") IN IF c < 0 THEN name ELSE PyFrom(name, c + 1)

\* elem.tag.endswith('}x') or elem.tag == 'x', for the element that starts at token i
IsElem(doc, i, local) ==
    doc.toks[i].k \in {"open", "empty"} /\ LocalName(doc.toks[i].name) = local

\* the tokens i..j that start an element with that local name, in document order:
\* [e for e in elem.iter() if ...] for the element spanning the tokens i..j
ElemsIn(doc, i, j, local) ==
    SelectSeq([n \in 1..Len(doc.toks) |-> n],
              LAMBDA n : i <= n /\ n <= j /\ IsElem(doc, n, local))

\* elem.text of the element that starts at token i: the character data before its first child
ElemText(doc, i) ==
    IF doc.toks[i].k = "open" /\ doc.toks[i + 1].k = "text" THEN doc.toks[i + 1].text ELSE <<>>

T_NAME == <<"t">>
TC_NAME == <<"t", "c">>
TR_NAME == <<"t", "r">>
TBL_NAME == <<"t", "b", "l">>

\* the texts of the t elements at the tokens of ts, joined
JoinTexts(doc, ts) == Join([n \in 1..Len(ts) |-> ElemText(doc, ts[n])])

\* _extract_cell_text
ExtractCellText(doc, tc) == JoinTexts(doc, ElemsIn(doc, tc, End(doc, tc), T_NAME))

\* the texts of the cells at the tokens of tcs
CellTexts(doc, tcs) == [n \in 1..Len(tcs) |-> ExtractCellText(doc, tcs[n])]

\* the inner loop of _parse_table_element: row_cells of the row at token tr
RowCells(doc, tr) == CellTexts(doc, ElemsIn(doc, tr, End(doc, tr), TC_NAME))

\* the end of _parse_table_element: rows, row_count, col_count
\* a plausible slip: the width of the first row is taken for col_count
TableDataFirstRowWidth(rows) ==
    IF rows # <<>>
    THEN [rows |-> rows, row_count |-> Len(rows), col_count |-> Len(rows[1])]
    ELSE [rows |-> <<>>, row_count |-> 0, col_count |-> 0]

TableData(rows) ==
    IF rows # <<>>
    THEN [rows |-> rows, row_count |-> Len(rows),
          col_count |-> MaxOf({ Len(rows[r]) : r \in 1..Len(rows) })]
    ELSE [rows |-> <<>>, row_count |-> 0, col_count |-> 0]

\* the outer loop of _parse_table_element: the row_cells of the rows at the tokens of trs
\* that have a cell
TableRows(doc, trs) ==
    SelectSeq([n \in 1..Len(trs) |-> RowCells(doc, trs[n])], LAMBDA row_cells : row_cells # <<>>)

\* _parse_table_element
ParseTableElement(doc, tbl) == TableData(TableRows(doc, ElemsIn(doc, tbl, End(doc, tbl), TR_NAME)))

\* the loop of _extract_tables_from_xml over the tbl elements at the tokens of tbls
TablesOf(doc, tbls) ==
    SelectSeq([n \in 1..Len(tbls) |-> ParseTableElement(doc, tbls[n])],
              LAMBDA table_data : table_data.rows # <<>>)

\* _extract_tables_from_xml
ExtractTablesFromXml(doc) == TablesOf(doc, ElemsIn(doc, 1, Len(doc.toks), TBL_NAME))

\* the result of _parse_section_xml, given whether decoding raised and the parsed document
SectionResult(raised, doc) ==
    IF raised \/ ~doc.ok THEN [text |-> <<>>, tables |-> <<>>]
    ELSE [text |-> JoinTexts(doc, ElemsIn(doc, 1, Len(doc.toks), T_NAME)),
          tables |-> ExtractTablesFromXml(doc)]

\* _parse_section_xml, given the bytes of the zip entry
ParseSectionXml(bytes) ==
    SectionResult(DecodeUtf8(bytes).raised, XmlParse(DecodeUtf8(bytes).text))

RECURSIVE JoinWith(_, _)
\* sep.join(parts)
JoinWith(sep, parts) ==
    IF parts = <<>> THEN <<>>
    ELSE IF Len(parts) = 1 THEN parts[1]
    ELSE parts[1] \o sep \o JoinWith(sep, Tail(parts))

\* the result of parse_hwpx, given the results for its sections
ParseResult(secs) ==
    [success |-> TRUE,
     text |-> JoinWith(<<"\n">>, [n \in 1..Len(secs) |-> secs[n].text]),
     tables |-> Join([n \in 1..Len(secs) |-> secs[n].tables])]

\* a plausible slip: a section that cannot be parsed makes the whole parse fail
ParseHwpxAborting(archive) ==
    IF ~archive.ok
       \/ \E n \in 1..Len(archive.sections) :
             DecodeUtf8(archive.sections[n]).raised
             \/ ~XmlParse(DecodeUtf8(archive.sections[n]).text).ok
    THEN [success |-> FALSE, text |-> <<>>, tables |-> <<>>]
    ELSE ParseResult([n \in 1..Len(archive.sections) |-> ParseSectionXml(archive.sections[n])])

\* parse_hwpx: archive.sections are the section entries in sorted name order
ParseHwpx(archive) ==
    IF ~archive.ok
    THEN [success |-> FALSE, text |-> <<>>, tables |-> <<>>]
    ELSE ParseResult([n \in 1..Len(archive.sections) |-> ParseSectionXml(archive.sections[n])])

----------------------------------------------------------------------------
(* save_hwpx_with_tables *)

NoFile == [ok |-> FALSE, sections |-> <<>>, exists |-> FALSE]

\* one round of the for-loop over section_files, given what reading the section gave and
\* what the remaining rounds give: the rewritten section files, and whether a read raised
SectionRound(content, tables_data, rest) ==
    IF content.raised \/ rest.raised THEN [raised |-> TRUE, files |-> <<>>]
    ELSE [raised |-> FALSE,
          files |-> <<WriteText(IF tables_data # <<>>
                                THEN ModifyTablesWithRegex(content.text, tables_data)
                                ELSE content.text)>> \o rest.files]

RECURSIVE SectionsLoop(_, _, _)
\* the for-loop over section_files from the n-th on
SectionsLoop(sections, tables_data, n) ==
    IF n > Len(sections) THEN [raised |-> FALSE, files |-> <<>>]
    ELSE SectionRound(ReadText(sections[n]), tables_data,
                      SectionsLoop(sections, tables_data, n + 1))

\* the end of save_hwpx_with_tables, given what the loop over the sections gave
SaveResult(secs) ==
    IF secs.raised THEN [ret |-> FALSE, written |-> FALSE, out |-> NoFile]
    ELSE [ret |-> TRUE, written |-> TRUE,
          out |-> [ok |-> TRUE, sections |-> secs.files, exists |-> TRUE]]

\* save_hwpx_with_tables: the return value and the archive written to output_path, if any
SaveHwpxWithTables(archive, tables_data) ==
    IF ~archive.ok THEN [ret |-> FALSE, written |-> FALSE, out |-> NoFile]
    ELSE SaveResult(SectionsLoop(archive.sections, tables_data, 1))

----------------------------------------------------------------------------
(* The HWPX documents and target grids of the model *)

MaxTables == 2        \* tables in one section
MaxArcSections == 2   \* section parts in one archive
MaxTargets == 2       \* target grids in one call
MaxRows == 2          \* rows of a table
MaxCols == 2          \* cells of a row

\* '<s xmlns:hp="u">', a root element that declares the hp prefix
ROOT_OPEN_TAG ==
    <<"<", "s", " ", "x", "m", "l", "n", "s", ":", "h", "p", "=", "\"", "u", "\"", ">">>

\* '</s>'
ROOT_CLOSE_TAG ==
    <<"<", "/", "s", ">">>

\* '<hp:tbl>'
TBL_TAG ==
    <<"<", "h", "p", ":", "t", "b", "l", ">">>

\* '<hp:tr>'
TR_TAG ==
    <<"<", "h", "p", ":", "t", "r", ">">>

\* '<hp:tc>'
TC_TAG ==
    <<"<", "h", "p", ":", "t", "c", ">">>

\* '<hp:run>'
RUN_TAG ==
    <<"<", "h", "p", ":", "r", "u", "n", ">">>

\* '<hp:run p="1"/>'
RUN_SELF_CLOSING ==
    <<"<", "h", "p", ":", "r", "u", "n", " ", "p", "=", "\"", "1", "\"", "/", ">">>

\* '<hp:run p="1">'
RUN_WITH_ATTR ==
    <<"<", "h", "p", ":", "r", "u", "n", " ", "p", "=", "\"", "1", "\"", ">">>

\* '<hp:t/>'
T_SELF_CLOSING ==
    <<"<", "h", "p", ":", "t", "/", ">">>

\* '<hp:ctrl/>'
CTRL_TAG ==
    <<"<", "h", "p", ":", "c", "t", "r", "l", "/", ">">>

\* '<hp:p/>'
P_TAG ==
    <<"<", "h", "p", ":", "p", "/", ">">>

\* '<hp:sz/>'
SZ_TAG ==
    <<"<", "h", "p", ":", "s", "z", "/", ">">>
\* the structures a cell comes in
CellKinds == {"text", "emptyT", "selfT", "selfRun", "bareSelfRun", "emptyRun", "ctrlRun",
              "noRun", "twoT", "entity"}

\* what lies between '<hp:tc>' and '</hp:tc>' in a cell of that kind
CellInner(kind, text) ==
    CASE kind = "text" -> RUN_TAG \o T_OPEN \o text \o T_CLOSE \o RUN_CLOSE
      [] kind = "emptyT" -> RUN_TAG \o T_OPEN \o T_CLOSE \o RUN_CLOSE
      [] kind = "selfT" -> RUN_TAG \o T_SELF_CLOSING \o RUN_CLOSE
      [] kind = "selfRun" -> P_TAG \o RUN_SELF_CLOSING \o SZ_TAG
      [] kind = "bareSelfRun" -> RUN_OPEN \o <<"/", ">">>
      [] kind = "emptyRun" -> RUN_WITH_ATTR \o RUN_CLOSE
      [] kind = "ctrlRun" -> RUN_TAG \o CTRL_TAG \o RUN_CLOSE
      [] kind = "noRun" -> P_TAG
      [] kind = "twoT" -> RUN_TAG \o T_OPEN \o <<"a">> \o T_CLOSE
                             \o T_OPEN \o <<"b">> \o T_CLOSE \o RUN_CLOSE
      [] kind = "entity" -> RUN_TAG \o T_OPEN \o AMP \o T_CLOSE \o RUN_CLOSE

CellXml(kind, text) == TC_TAG \o CellInner(kind, text) \o TC_CLOSE

\* a table of nr rows of nc cells: cell (0,0) is of the given kind, the others hold text
TableXml(nr, nc, kind) ==
    TBL_TAG
    \o Join([r \in 1..nr |->
          TR_TAG
          \o Join([c \in 1..nc |->
                IF r = 1 /\ c = 1 THEN CellXml(kind, <<"a">>)
                ELSE CellXml("text", IF (r + c) % 2 = 0 THEN <<"b">> ELSE <<"c">>)])
          \o TR_CLOSE])
    \o TBL_CLOSE

\* a well-formed section of nt one-cell tables, each followed by sep
SectionXml(nt, kind, sep) ==
    ROOT_OPEN_TAG
    \o Join([k \in 1..nt |-> TableXml(1, 1, IF k = 1 THEN kind ELSE "text") \o sep])
    \o ROOT_CLOSE_TAG

Separators == { <<>>, <<"z", "z">> }

WellFormedSections ==
    { SectionXml(nt, kind, sep) : nt \in 0..MaxTables, kind \in CellKinds, sep \in Separators }

\* a fragment whose table is never closed
MalformedSection == ROOT_OPEN_TAG \o TBL_TAG \o TR_TAG

\* the same with a Windows line end
MalformedCrLfSection == MalformedSection \o <<"\r", "\n">>

\* a part that is not UTF-8 text
BadUtf8Section == ROOT_OPEN_TAG \o <<BadByte>> \o ROOT_CLOSE_TAG

\* a part with Windows line ends
CrLfSection == ROOT_OPEN_TAG \o <<"\r", "\n">> \o TableXml(1, 1, "text") \o ROOT_CLOSE_TAG

\* the sections that archives of several sections are made of
MultiSections ==
    { SectionXml(1, "text", <<>>), SectionXml(2, "text", <<>>),
      SectionXml(0, "text", <<>>), MalformedSection }

RECURSIVE SeqsOf(_, _)
\* the sequences of length n over S
SeqsOf(S, n) ==
    IF n = 0 THEN { <<>> } ELSE { <<x>> \o s : x \in S, s \in SeqsOf(S, n - 1) }

ArchiveOf(sections) == [ok |-> TRUE, sections |-> sections, exists |-> TRUE]

\* a file that zipfile.ZipFile cannot open
NotAZip == [ok |-> FALSE, sections |-> <<>>, exists |-> TRUE]

Archives ==
    { ArchiveOf(<<s>>) : s \in WellFormedSections \cup
          {MalformedSection, MalformedCrLfSection, BadUtf8Section, CrLfSection} }
    \cup { ArchiveOf(ss) : ss \in UNION { SeqsOf(MultiSections, n) : n \in 2..MaxArcSections } }
    \cup { NotAZip }

\* replacement texts: shorter than, as long as and longer than the text they replace, and a
\* character that XML stores as an entity
TargetTexts == { <<>>, <<"x">>, <<"y", "y", "y">>, <<"&">> }

GridOf(rows) == [rows |-> rows]

\* the lists of target grids a caller passes: the first grid is a one-cell grid or has no
\* rows, every further grid is [['w']]
TargetLists ==
    { <<>> }
    \cup { <<g>> \o [k \in 1..n |-> GridOf(<<<<<<"w">>>>>>)] :
             g \in { GridOf(<<<<t>>>>) : t \in TargetTexts } \cup { GridOf(<<>>) },
             n \in 0..(MaxTargets - 1) }

\* a replacement text that is itself markup: '<hp:tc><hp:t>z</hp:t></hp:tc>'
MarkupText == TC_TAG \o T_OPEN \o <<"z">> \o T_CLOSE \o TC_CLOSE

\* replacement texts of the calls of the editor's functions
CallTexts == { <<>>, <<"x">>, <<"y", "y", "y">>, MarkupText }

\* a target grid of gr rows of gc cells that all hold t
FilledGrid(gr, gc, t) == [r \in 1..gr |-> [c \in 1..gc |-> t]]

----------------------------------------------------------------------------
(* A caller of parse_hwpx and save_hwpx_with_tables that names its files   *)
(* as app.py does: parse the original, choose target grids, save, parse    *)
(* what was saved.                                                         *)

Filename == "doc.hwpx"
SessionId == "s1"

\* os.path.join(app.config['UPLOAD_FOLDER'], filename)
OriginalPath == <<"uploads", Filename>>

\* a plausible slip: the archive is written over the original
OutputPathInPlace(session_id) == OriginalPath

\* os.path.join(app.config['TEMP_FOLDER'], f'{session_id}_edited.hwpx')
OutputPath(session_id) == <<"temp", session_id, "_edited.hwpx">>

Paths == { OriginalPath, OutputPath(SessionId) }

EInit ==
    /\ LOff
    /\ COff
    /\ AOff
    /\ \E archive \in Archives :
          fs = [p \in Paths |-> IF p = OriginalPath THEN archive ELSE NoFile]
    /\ session_tables = <<>>
    /\ estep = "start"
    /\ parsed = None
    /\ saved = None
    /\ reparsed = None

\* result = parse_hwpx(original_path); the caller holds result['tables']
ParseOriginal ==
    /\ estep = "start"
    /\ parsed' = ParseHwpx(fs[OriginalPath])
    /\ session_tables' = parsed'.tables
    /\ estep' = "parsed"
    /\ UNCHANGED <<fs, saved, reparsed, lvars, cvars, avars>>

\* the caller replaces the grids by target grids of its own
SetTargets ==
    /\ estep = "parsed"
    /\ \E targets \in TargetLists : session_tables' = targets
    /\ estep' = "updated"
    /\ UNCHANGED <<fs, parsed, saved, reparsed, lvars, cvars, avars>>

\* success = save_hwpx_with_tables(original_path, tables, output_path)
SaveEdited ==
    /\ estep \in {"parsed", "updated"}
    /\ \E res \in { SaveHwpxWithTables(fs[OriginalPath], session_tables) } :
          /\ fs' = IF res.written THEN [fs EXCEPT ![OutputPath(SessionId)] = res.out] ELSE fs
          /\ saved' = [ret |-> res.ret, written |-> res.written,
                       unedited |-> estep = "parsed"]
    /\ estep' = "saved"
    /\ UNCHANGED <<session_tables, parsed, reparsed, lvars, cvars, avars>>

\* parse_hwpx(output_path)
ParseSaved ==
    /\ estep = "saved"
    /\ saved.written
    /\ reparsed' = ParseHwpx(fs[OutputPath(SessionId)])
    /\ estep' = "reparsed"
    /\ UNCHANGED <<fs, session_tables, parsed, saved, lvars, cvars, avars>>

ENext ==
    \/ ParseOriginal
    \/ SetTargets
    \/ SaveEdited
    \/ ParseSaved

SpecEdit == EInit /\ [][ENext]_vars

----------------------------------------------------------------------------
(* One call of a function of the pattern-based editor *)

TableCalls ==
    { [fn |-> "_modify_single_table_regex",
       tbl_content |-> TableXml(nr, nc, kind),
       new_rows |-> FilledGrid(gr, gc, t)] :
        nr \in 1..MaxRows, nc \in 1..MaxCols, kind \in CellKinds,
        gr \in 0..(MaxRows + 1), gc \in 0..(MaxCols + 1), t \in CallTexts }

CellCalls ==
    { [fn |-> "_modify_cell_text_regex",
       tc_content |-> CellXml(kind, <<"a">>),
       new_text |-> t] : kind \in CellKinds, t \in CallTexts }

TablesCalls ==
    { [fn |-> "_modify_tables_with_regex",
       content |-> s,
       tables_data |-> targets] : s \in WellFormedSections, targets \in TargetLists }

CInit ==
    /\ LOff
    /\ EOff
    /\ AOff
    /\ call \in TableCalls \cup CellCalls \cup TablesCalls
    /\ returned = None

CallModifySingleTable ==
    /\ call.fn = "_modify_single_table_regex"
    /\ returned = None
    /\ returned' = [value |-> ModifySingleTableRegex(call.tbl_content, call.new_rows)]
    /\ UNCHANGED <<call, lvars, evars, avars>>

CallModifyCellText ==
    /\ call.fn = "_modify_cell_text_regex"
    /\ returned = None
    /\ returned' = [value |-> ModifyCellTextRegex(call.tc_content, call.new_text)]
    /\ UNCHANGED <<call, lvars, evars, avars>>

CallModifyTables ==
    /\ call.fn = "_modify_tables_with_regex"
    /\ returned = None
    /\ returned' = [value |-> ModifyTablesWithRegex(call.content, call.tables_data)]
    /\ UNCHANGED <<call, lvars, evars, avars>>

CNext ==
    \/ CallModifySingleTable
    \/ CallModifyCellText
    \/ CallModifyTables

SpecCall == CInit /\ [][CNext]_vars

----------------------------------------------------------------------------
(* save_hwpx_with_tables_lxml, the editor that works on the parsed tree.   *)
(* A tree is the sequence of the start tags, end tags and character data   *)
(* of its elements in document order, an empty element being a start tag   *)
(* followed by its end tag.  The namespace "u" that the documents of the   *)
(* model bind hp to stands for the paragraph namespace of ns_map.          *)

HP_T == <<"h", "p", ":", "t">>
HP_RUN == <<"h", "p", ":", "r", "u", "n">>
RUN_LOCAL == <<"r", "u", "n">>

OpenTag(name) == [k |-> "open", name |-> name]
CloseTag(name) == [k |-> "close", name |-> name]
CharData(text) == [k |-> "text", text |-> text]

\* the tokens with every empty-element tag replaced by a start tag and an end tag
ExpandEmpty(toks) ==
    Join([i \in 1..Len(toks) |->
            IF toks[i].k = "empty"
            THEN <<OpenTag(toks[i].name), CloseTag(toks[i].name)>>
            ELSE <<toks[i]>>])

\* etree.parse(section_file, parser): the tree of the part; ok is false where the parser
\* raises.  An XML parser reads '\r\n' and '\r' as '\n'.
LxmlParse(bytes) ==
    IF ReadText(bytes).raised THEN [ok |-> FALSE, tree |-> <<>>]
    ELSE LET toks == Tokens(ReadText(bytes).text)
         IN [ok |-> XmlParseTokens(toks).ok, tree |-> ExpandEmpty(toks)]

\* tree with the tokens of ins inserted before position i
InsertBefore(tree, i, ins) == SubSeq(tree, 1, i - 1) \o ins \o SubSeq(tree, i, Len(tree))

\* an element hp:t with that text
TElement(new_text) ==
    <<OpenTag(HP_T)>> \o (IF new_text = <<>> THEN <<>> ELSE <<CharData(new_text)>>)
        \o <<CloseTag(HP_T)>>

\* elem.text = new_text for the element that starts at token i
SetText(tree, i, new_text) ==
    LET rest == IF tree[i + 1].k = "text" THEN SubSeq(tree, i + 2, Len(tree))
                ELSE SubSeq(tree, i + 1, Len(tree))
    IN SubSeq(tree, 1, i)
       \o (IF new_text = <<>> THEN <<>> ELSE <<CharData(new_text)>>)
       \o rest

RECURSIVE SetTextOfAll(_, _, _)
\* elem.text = new_text for every element of elems, the last one first
SetTextOfAll(tree, elems, new_text) ==
    IF elems = <<>> THEN tree
    ELSE SetTextOfAll(SetText(tree, Last(elems), new_text),
                      SubSeq(elems, 1, Len(elems) - 1), new_text)

\* a loop body that gives the text to every hp:t of the cell
SetCellTextLxmlAll(tree, tc, new_text) ==
    LET doc == XmlParseTokens(tree)
        t_elements == ElemsIn(doc, tc + 1, End(doc, tc), T_NAME)
        run_elements == ElemsIn(doc, tc + 1, End(doc, tc), RUN_LOCAL)
    IN IF t_elements # <<>> THEN SetTextOfAll(tree, t_elements, new_text)
       ELSE IF run_elements # <<>>
       THEN InsertBefore(tree, End(doc, run_elements[1]), TElement(new_text))
       ELSE InsertBefore(tree, End(doc, tc),
                         <<OpenTag(HP_RUN)>> \o TElement(new_text) \o <<CloseTag(HP_RUN)>>)

\* the body of the loop over cells: the first hp:t of the cell gets the text; without one,
\* the first hp:run of the cell gets a new hp:t as its last child; without one, the cell
\* gets a new hp:run with a new hp:t as its last child
SetCellTextLxml(tree, tc, new_text) ==
    LET doc == XmlParseTokens(tree)
        t_elements == ElemsIn(doc, tc + 1, End(doc, tc), T_NAME)
        run_elements == ElemsIn(doc, tc + 1, End(doc, tc), RUN_LOCAL)
    IN IF t_elements # <<>> THEN SetText(tree, t_elements[1], new_text)
       ELSE IF run_elements # <<>>
       THEN InsertBefore(tree, End(doc, run_elements[1]), TElement(new_text))
       ELSE InsertBefore(tree, End(doc, tc),
                         <<OpenTag(HP_RUN)>> \o TElement(new_text) \o <<CloseTag(HP_RUN)>>)

\* root.xpath('.//hp:x') and elem.xpath('.//hp:x'): the descendants of the element at
\* token i with that local name, in document order
Descendants(doc, i, local) == ElemsIn(doc, i + 1, End(doc, i), local)

RECURSIVE LxmlCellLoop(_, _, _, _, _)
\* the loop over cells from col_idx on (0-based), for the row_ord-th row of the tbl_ord-th
\* table; the edits add no table, row or cell, so the elements keep their positions in
\* the lists that the code took before
LxmlCellLoop(tree, tbl_ord, row_ord, col_idx, row_data) ==
    LET doc == XmlParseTokens(tree)
        tbl == Descendants(doc, 1, TBL_NAME)[tbl_ord]
        tr == Descendants(doc, tbl, TR_NAME)[row_ord]
        cells == Descendants(doc, tr, TC_NAME)
    IN IF col_idx >= Len(cells) \/ col_idx >= Len(row_data) THEN tree
       ELSE LxmlCellLoop(SetCellTextLxml(tree, cells[col_idx + 1], row_data[col_idx + 1]),
                         tbl_ord, row_ord, col_idx + 1, row_data)

RECURSIVE LxmlRowLoop(_, _, _, _)
\* the loop over rows from row_idx on (0-based), for the tbl_ord-th table
LxmlRowLoop(tree, tbl_ord, row_idx, new_rows) ==
    LET doc == XmlParseTokens(tree)
        tbl == Descendants(doc, 1, TBL_NAME)[tbl_ord]
        rows == Descendants(doc, tbl, TR_NAME)
    IN IF row_idx >= Len(rows) \/ row_idx >= Len(new_rows) THEN tree
       ELSE LxmlRowLoop(LxmlCellLoop(tree, tbl_ord, row_idx + 1, 0, new_rows[row_idx + 1]),
                        tbl_ord, row_idx + 1, new_rows)

RECURSIVE LxmlTableLoop(_, _, _)
\* the loop over the tables of a section from table_idx on (0-based)
LxmlTableLoop(tree, table_idx, tables_data) ==
    LET doc == XmlParseTokens(tree)
        tbls == Descendants(doc, 1, TBL_NAME)
    IN IF table_idx >= Len(tbls) \/ table_idx >= Len(tables_data) THEN tree
       ELSE IF tables_data[table_idx + 1].rows = <<>>
       THEN LxmlTableLoop(tree, table_idx + 1, tables_data)
       ELSE LxmlTableLoop(LxmlRowLoop(tree, table_idx + 1, 0, tables_data[table_idx + 1].rows),
                          table_idx + 1, tables_data)

\* a section file that the loop leaves as it is, and one that tree.write has rewritten
Untouched(bytes) == [kind |-> "bytes", bytes |-> bytes]
Rewritten(tree) == [kind |-> "tree", tree |-> tree]

\* one round of the loop over section_files: a part that does not parse is passed over
\* (continue), and so is every part when tables_data is empty
LxmlSection(bytes, tables_data) ==
    LET parsed_part == LxmlParse(bytes)
    IN IF ~parsed_part.ok \/ tables_data = <<>> THEN Untouched(bytes)
       ELSE Rewritten(LxmlTableLoop(parsed_part.tree, 0, tables_data))

\* save_hwpx_with_tables_lxml: the return value and the archive written; without lxml, and
\* after an exception (the archive cannot be opened), it is save_hwpx_with_tables
SaveHwpxWithTablesLxml(archive, tables_data, lxml_available) ==
    IF ~lxml_available \/ ~archive.ok
    THEN [tier |-> "regex", res |-> SaveHwpxWithTables(archive, tables_data)]
    ELSE [tier |-> "lxml",
          res |-> [ret |-> TRUE, written |-> TRUE,
                   out |-> [ok |-> TRUE, exists |-> TRUE,
                            sections |-> [n \in 1..Len(archive.sections) |->
                                             LxmlSection(archive.sections[n], tables_data)]]]]

\* a part whose root element is never closed, with a complete table
UnclosedSection == ROOT_OPEN_TAG \o TableXml(1, 1, "text")

\* the archives of the calls: one section with one table for each kind of cell, a table of
\* two rows of two cells, archives of two sections, and a file that is no archive
LxmlArchives ==
    { ArchiveOf(<<SectionXml(1, kind, <<>>)>>) : kind \in CellKinds }
    \cup { ArchiveOf(<<ROOT_OPEN_TAG \o TableXml(2, 2, "twoT") \o ROOT_CLOSE_TAG>>) }
    \cup { ArchiveOf(<<a, b>>) :
             a \in { SectionXml(1, "text", <<>>), UnclosedSection },
             b \in { SectionXml(2, "selfRun", <<>>), UnclosedSection, BadUtf8Section } }
    \cup { NotAZip }

LxmlCalls ==
    { [fn |-> "save_hwpx_with_tables_lxml", archive |-> a, tables_data |-> targets,
       lxml_available |-> b] :
        a \in LxmlArchives, targets \in TargetLists, b \in BOOLEAN }

XInit ==
    /\ LOff
    /\ EOff
    /\ AOff
    /\ call \in LxmlCalls
    /\ returned = None

CallSaveLxml ==
    /\ call # None
    /\ call.fn = "save_hwpx_with_tables_lxml"
    /\ returned = None
    /\ returned' = SaveHwpxWithTablesLxml(call.archive, call.tables_data, call.lxml_available)
    /\ UNCHANGED <<call, lvars, evars, avars>>

XNext == CallSaveLxml

SpecLxml == XInit /\ [][XNext]_vars

\* both editors
TiersInit == CInit \/ XInit

TiersNext == CNext \/ XNext

SpecTiers == TiersInit /\ [][TiersNext]_vars

----------------------------------------------------------------------------
(* One call of parse_hwpx on documents whose tables have rows of different *)
(* lengths, rows without cells, no rows, or a table nested in a cell.      *)

MaxReadRows == 2       \* tr elements of a table
MaxReadCols == 2       \* tc elements of a tr
MaxReadSections == 3   \* section parts of an archive read

\* a one-cell table inside a cell: '<hp:tbl><hp:tr><hp:tc>...n...</hp:tc></hp:tr></hp:tbl>'
NestedTableXml == TBL_TAG \o TR_TAG \o CellXml("text", <<"n">>) \o TR_CLOSE \o TBL_CLOSE

ReadCellKinds == CellKinds \cup {"nested"}

\* a cell of kind "nested" holds a text run and then a table
ReadCellInner(kind, text) ==
    IF kind = "nested"
    THEN RUN_TAG \o T_OPEN \o text \o T_CLOSE \o RUN_CLOSE \o NestedTableXml
    ELSE CellInner(kind, text)

\* the text of the cells other than the first one of a table
OtherText(r, c) == IF (r + c) % 2 = 0 THEN <<"b">> ELSE <<"c">>

\* a table whose r-th tr has shape[r] tc elements; its first cell is of the given kind and
\* holds "a", the others are text cells
ShapedTableXml(shape, kind) ==
    TBL_TAG
    \o Join([r \in 1..Len(shape) |->
          TR_TAG
          \o Join([c \in 1..shape[r] |->
                TC_TAG
                \o (IF r = 1 /\ c = 1 THEN ReadCellInner(kind, <<"a">>)
                    ELSE CellInner("text", OtherText(r, c)))
                \o TC_CLOSE])
          \o TR_CLOSE])
    \o TBL_CLOSE

\* the numbers of cells of the rows of a table
RowShapes == UNION { SeqsOf(0..MaxReadCols, n) : n \in 0..MaxReadRows }

\* the tables read: every shape with text cells, and every kind of first cell in a one-cell
\* table and in a table of a two-cell row and a one-cell row
TableDescs ==
    { [shape |-> shape, kind |-> "text"] : shape \in RowShapes }
    \cup { [shape |-> shape, kind |-> kind] :
             shape \in { <<1>>, <<2, 1>> }, kind \in ReadCellKinds }

\* the second table of a section of two tables
SecondTableDescs ==
    { [shape |-> <<>>, kind |-> "text"], [shape |-> <<0>>, kind |-> "text"],
      [shape |-> <<1, 2>>, kind |-> "text"], [shape |-> <<1>>, kind |-> "nested"] }

\* the sections of one call: one table, or two tables with text between them
SectionDescs ==
    { <<d>> : d \in TableDescs }
    \cup { <<d, e>> : d \in SecondTableDescs, e \in SecondTableDescs }

\* the section part with the tables of descs, each followed by "zz"
DescribedSectionXml(descs) ==
    ROOT_OPEN_TAG
    \o Join([k \in 1..Len(descs) |->
          ShapedTableXml(descs[k].shape, descs[k].kind) \o <<"z", "z">>])
    \o ROOT_CLOSE_TAG

\* a well-formed section with no table and no text
EmptySection == ROOT_OPEN_TAG \o ROOT_CLOSE_TAG

\* a section that is not well-formed because of a bare '&' in a text element
BareAmpSection ==
    ROOT_OPEN_TAG \o TBL_TAG \o TR_TAG \o CellXml("text", <<"&">>) \o TR_CLOSE \o TBL_CLOSE
    \o ROOT_CLOSE_TAG

\* the sections that the archives of several sections are made of
ReadSections ==
    { SectionXml(1, "text", <<>>), SectionXml(1, "twoT", <<>>), EmptySection,
      MalformedSection, BareAmpSection }

\* the calls: single sections that are described by their tables (desc), and archives of
\* several sections, some of them malformed (desc is the empty list for them)
ReadCalls ==
    { [fn |-> "parse_hwpx", archive |-> ArchiveOf(<<DescribedSectionXml(descs)>>),
       desc |-> descs] : descs \in SectionDescs }
    \cup { [fn |-> "parse_hwpx", archive |-> ArchiveOf(ss), desc |-> <<>>] :
             ss \in UNION { SeqsOf(ReadSections, n) : n \in 2..MaxReadSections } }

RInit ==
    /\ LOff
    /\ EOff
    /\ AOff
    /\ call \in ReadCalls
    /\ returned = None

\* result = parse_hwpx(file_path)
CallParseHwpx ==
    /\ call # None
    /\ call.fn = "parse_hwpx"
    /\ returned = None
    /\ returned' = [value |-> ParseHwpx(call.archive)]
    /\ UNCHANGED <<call, lvars, evars, avars>>

RNext == CallParseHwpx

SpecRead == RInit /\ [][RNext]_vars

\* the two readers: a run of the legacy reader, or a call of the modern reader
ReadersInit == LInit \/ RInit

ReadersNext == LNext \/ RNext

SpecReaders == ReadersInit /\ [][ReadersNext]_vars

----------------------------------------------------------------------------
(* Directed cell edits on the stored grid list of a session:               *)
(* table_reconstructor.edit_table_data and the endpoint edit_table_cell of *)
(* app.py. session_tables is the content of the session's JSON file.       *)

MaxEdits == 2          \* directed edits in one run
MaxEditIndex == 2      \* the largest table, row and column index of a request

\* the indices a request can carry: JSON integers, negative ones included
IndexValues == (0 - 1)..MaxEditIndex

\* the grid lists a session holds after an upload: as the readers produce them
StoredGrid1 ==
    [rows |-> << << <<"a">> >>, << <<"c">>, <<"b">> >> >>, row_count |-> 2, col_count |-> 2]

StoredGrid2 ==
    [rows |-> << << <<"d">> >> >>, row_count |-> 1, col_count |-> 1]

StoredLists == { <<>>, <<StoredGrid1>>, <<StoredGrid1, StoredGrid2>> }

\* seq[i] does not raise IndexError: Python accepts -len(seq) <= i < len(seq)
PyIndexable(seq, i) == 0 - Len(seq) <= i /\ i < Len(seq)

\* the 1-based position that seq[i] denotes
PyPos(seq, i) == IF i >= 0 THEN i + 1 ELSE Len(seq) + i + 1

\* a plausible slip: the row is extended by cells that hold a space
ExtendRowWithSpaces(row_cells, col) ==
    IF Len(row_cells) <= col
    THEN row_cells \o [k \in 1..(col + 1 - Len(row_cells)) |-> <<" ">>]
    ELSE row_cells

\* "while len(rows[row]) <= col: rows[row].append('')"
ExtendRow(row_cells, col) ==
    IF Len(row_cells) <= col
    THEN row_cells \o [k \in 1..(col + 1 - Len(row_cells)) |-> <<>>]
    ELSE row_cells

\* "rows[row][col] = new_value" on the extended row; IndexError if col is below -len
AssignCell(stored, t, r, extended, col, new_value) ==
    IF ~PyIndexable(extended, col) THEN [status |-> "IndexError", tables |-> stored]
    ELSE [status |-> "ok",
          tables |-> [stored EXCEPT ![t].rows[r] =
                         [extended EXCEPT ![PyPos(extended, col)] = new_value]]]

\* the row test and the row access, for the table at position t
EditRow(stored, t, row, col, new_value) ==
    IF ~(row < Len(stored[t].rows)) THEN [status |-> "row_range", tables |-> stored]
    ELSE IF ~PyIndexable(stored[t].rows, row) THEN [status |-> "IndexError", tables |-> stored]
    ELSE AssignCell(stored, t, PyPos(stored[t].rows, row),
                    ExtendRow(stored[t].rows[PyPos(stored[t].rows, row)], col),
                    col, new_value)

\* the body that edit_table_data and edit_table_cell share: the tests on table_index and
\* row, the extension of the row and the assignment; stored is the loaded list (tables),
\* the result is what happened and the list as it is in memory afterwards
SetCell(stored, table_index, row, col, new_value) ==
    IF ~(table_index < Len(stored)) THEN [status |-> "table_range", tables |-> stored]
    ELSE IF ~PyIndexable(stored, table_index) THEN [status |-> "IndexError", tables |-> stored]
    ELSE EditRow(stored, PyPos(stored, table_index), row, col, new_value)

\* the requests: the n-th call, its function and its arguments
EditCalls(n) ==
    { [fn |-> fn, table_index |-> table_index, row |-> row, col |-> col,
       value |-> <<"v">>, n |-> n] :
        fn \in {"edit_table_data", "edit_table_cell"},
        table_index \in IndexValues, row \in IndexValues, col \in IndexValues }

CallsMade == IF call = None THEN 0 ELSE call.n

DInit ==
    /\ LOff
    /\ COff
    /\ AOff
    /\ fs = None
    /\ session_tables \in StoredLists
    /\ estep = "off"
    /\ parsed = None
    /\ saved = None
    /\ reparsed = None

\* edit_table_data(json_path, table_index, row, col, new_value): the list is saved and True
\* returned after the assignment, False returned for an index that is too large, and an
\* IndexError of the list accesses is not caught
EditTableData ==
    /\ CallsMade < MaxEdits
    /\ \E c \in EditCalls(CallsMade + 1) :
          /\ c.fn = "edit_table_data"
          /\ call' = c
          /\ \E out \in { SetCell(session_tables, c.table_index, c.row, c.col, c.value) } :
                /\ session_tables' = IF out.status = "ok" THEN out.tables ELSE session_tables
                /\ returned' = [success |-> out.status = "ok",
                                raised |-> out.status = "IndexError",
                                code |-> 0]
    /\ UNCHANGED <<fs, estep, parsed, saved, reparsed, lvars, avars>>

\* POST /api/tables/<session_id>/edit: 200 after the list is saved, 400 for an index that is
\* too large, 500 for any exception
EditTableCell ==
    /\ CallsMade < MaxEdits
    /\ \E c \in EditCalls(CallsMade + 1) :
          /\ c.fn = "edit_table_cell"
          /\ call' = c
          /\ \E out \in { SetCell(session_tables, c.table_index, c.row, c.col, c.value) } :
                /\ session_tables' = IF out.status = "ok" THEN out.tables ELSE session_tables
                /\ returned' = [success |-> out.status = "ok",
                                raised |-> FALSE,
                                code |-> CASE out.status = "ok" -> 200
                                           [] out.status = "IndexError" -> 500
                                           [] OTHER -> 400]
    /\ UNCHANGED <<fs, estep, parsed, saved, reparsed, lvars, avars>>

DNext ==
    \/ EditTableData
    \/ EditTableCell

SpecDirected == DInit /\ [][DNext]_vars

----------------------------------------------------------------------------
(* app.py: the upload endpoint and the session endpoints.  uploads is      *)
(* UPLOAD_FOLDER and temp is TEMP_FOLDER; file names and identifiers are   *)
(* strings, so that two names are the same file exactly when they are the  *)
(* same characters.                                                        *)

MaxUploads == 2        \* sessions created in one run
MaxRequests == 3       \* requests handled in one run

\* what temp holds for a name under which there is no file
Absent == [absent |-> TRUE]

\* '.json', '_text.txt', '_session.json', '_package.zip', '_edited.hwpx'
JSON_SUFFIX == <<".", "j", "s", "o", "n">>
TEXT_SUFFIX == <<"_", "t", "e", "x", "t", ".", "t", "x", "t">>
SESSION_SUFFIX == <<"_", "s", "e", "s", "s", "i", "o", "n", ".", "j", "s", "o", "n">>
PACKAGE_SUFFIX == <<"_", "p", "a", "c", "k", "a", "g", "e", ".", "z", "i", "p">>
EDITED_SUFFIX == <<"_", "e", "d", "i", "t", "e", "d", ".", "h", "w", "p", "x">>

\* os.path.join(app.config['TEMP_FOLDER'], f'{session_id}...'), as a name within temp
JsonPath(session_id) == session_id \o JSON_SUFFIX
TextPath(session_id) == session_id \o TEXT_SUFFIX
SessionJsonPath(session_id) == session_id \o SESSION_SUFFIX
ZipPath(session_id) == session_id \o PACKAGE_SUFFIX
EditedPath(session_id) == session_id \o EDITED_SUFFIX

\* os.urandom(16).hex() of the n-th session: hexadecimal digits, different for each n
NewSessionId(n) == <<"a", ToString(n)>>

\* an identifier that is never given to a session
UnknownId == <<"f", "f">>

\* the identifier of the first session followed by '_session'
SuffixedId == NewSessionId(1) \o <<"_", "s", "e", "s", "s", "i", "o", "n">>

\* the identifiers that requests name
RequestIds == { NewSessionId(n) : n \in 1..MaxUploads } \cup { UnknownId, SuffixedId }

TempNames ==
    { id \o sfx : id \in RequestIds,
                  sfx \in { JSON_SUFFIX, TEXT_SUFFIX, SESSION_SUFFIX, PACKAGE_SUFFIX,
                            EDITED_SUFFIX } }

\* the names of uploaded files: 'a.hwpx', 'c.HWP' and 'n'; secure_filename returns each of
\* them as it is
UploadNames == { <<"a", ".", "h", "w", "p", "x">>, <<"c", ".", "H", "W", "P">>, <<"n">> }

\* str.lower(), over the letters of the model
LowerChar(ch) ==
    CASE ch = "H" -> "h" [] ch = "W" -> "w" [] ch = "P" -> "p" [] ch = "X" -> "x"
      [] OTHER -> ch

Lower(s) == [i \in 1..Len(s) |-> LowerChar(s[i])]

\* '.' in filename
HasDot(filename) == \E i \in 1..Len(filename) : filename[i] = "."

\* filename.rsplit('.', 1)[1].lower(), for a filename with a '.'
get_file_type(filename) ==
    LET dots == { i \in 1..Len(filename) : filename[i] = "." }
    IN Lower(SubSeq(filename, MaxOf(dots) + 1, Len(filename)))

HWP == <<"h", "w", "p">>
HWPX == <<"h", "w", "p", "x">>

allowed_file(filename) == HasDot(filename) /\ get_file_type(filename) \in { HWP, HWPX }

\* a file of the legacy format: hwp is what the decoder yields for it, the return values of
\* parse_hwp and parse_tables
LegacyFile(text, grids) ==
    [ok |-> FALSE, sections |-> <<>>, exists |-> TRUE, hwp |-> [text |-> text, tables |-> grids]]

IsLegacy(file) == "hwp" \in DOMAIN file

\* the files that are uploaded: two archives of one section with one one-cell table, a
\* legacy file and a file that is neither
UploadA == ArchiveOf(<<ROOT_OPEN_TAG \o TableXml(1, 1, "text") \o ROOT_CLOSE_TAG>>)
UploadB == ArchiveOf(<<ROOT_OPEN_TAG \o TableXml(1, 2, "selfRun") \o ROOT_CLOSE_TAG>>)
UploadLegacy == LegacyFile([text |-> <<"t", "\n">>], <<>>)
UploadFiles == { UploadA, UploadB, UploadLegacy, NotAZip }

\* is_hwpx_file: the archives of the model keep their parts under Contents/
is_hwpx_file(file) == file.ok

\* parse_hwp(filepath) and parse_tables(filepath) of a file: None and [] for a file that
\* the decoder cannot read
ParseHwp(file) == IF IsLegacy(file) THEN file.hwp.text ELSE None
ParseTables(file) == IF IsLegacy(file) THEN file.hwp.tables ELSE <<>>

\* text or '', for what parse_hwp returned
OrEmpty(text) == IF text = None THEN <<>> ELSE text.text

\* the content of a text file
TextFile(text) == [kind |-> "text", value |-> text]

\* the content of a JSON file: json.dump of a list or of a dict
JsonList(value) == [kind |-> "list", value |-> value]
JsonDict(value) == [kind |-> "dict", value |-> value]

\* session_data of an upload
SessionData(filename, file_type, text, grids) ==
    JsonDict([original_file |-> filename, original_path |-> filename,
              file_type |-> file_type, text |-> text, tables |-> grids])

Exists(name) == temp[name] # Absent

RequestsMade == IF request = None THEN 0 ELSE request.n

\* the three files that an upload stores for a new session
StoreSession(session_id, filename, file_type, text, grids) ==
    [name \in TempNames |->
        IF name = JsonPath(session_id) THEN JsonList(grids)
        ELSE IF name = TextPath(session_id) THEN TextFile(text)
        ELSE IF name = SessionJsonPath(session_id)
        THEN SessionData(filename, file_type, text, grids)
        ELSE temp[name]]

\* the session created by an upload, as the later claims speak of it
NewSession(session_id, filename, file, text, grids) ==
    [id |-> session_id, filename |-> filename, file |-> file, text |-> text, tables |-> grids]

AInit ==
    /\ LOff
    /\ EOff
    /\ COff
    /\ uploads = [name \in UploadNames |-> NoFile]
    /\ temp = [name \in TempNames |-> Absent]
    /\ sessions = <<>>
    /\ request = None
    /\ response = None
    /\ inflight = None
    /\ writes = <<>>

\* the steps of the app: it has been started and may handle one more request
Serving == uploads # None /\ inflight = None /\ RequestsMade < MaxRequests

\* _process_hwpx_upload and _process_hwp_upload, given what the parsers returned:
\* the session files are written and the session is announced
ProcessUpload(filename, file, file_type, text, grids) ==
    LET session_id == NewSessionId(Len(sessions) + 1)
    IN /\ temp' = StoreSession(session_id, filename, file_type, text, grids)
       /\ sessions' = Append(sessions, NewSession(session_id, filename, file, text, grids))
       /\ response' = [code |-> 200, success |-> TRUE, session_id |-> session_id,
                       text |-> text, tables |-> grids]

\* upload_file
UploadFile ==
    /\ Serving
    /\ Len(sessions) < MaxUploads
    /\ \E filename \in UploadNames, file \in UploadFiles :
          /\ request' = [op |-> "upload_file", filename |-> filename, file |-> file,
                         n |-> RequestsMade + 1]
          /\ IF ~allowed_file(filename)
             THEN /\ response' = [code |-> 400]
                  /\ UNCHANGED <<uploads, temp, sessions>>
             ELSE /\ uploads' = [uploads EXCEPT ![filename] = file]
                  /\ IF get_file_type(filename) = HWPX \/ is_hwpx_file(file)
                     THEN \E res \in { ParseHwpx(file) } :
                            IF ~res.success
                            THEN /\ response' = [code |-> 500]
                                 /\ UNCHANGED <<temp, sessions>>
                            ELSE ProcessUpload(filename, file, HWPX, res.text, res.tables)
                     ELSE ProcessUpload(filename, file, HWP, OrEmpty(ParseHwp(file)),
                                        ParseTables(file))
    /\ UNCHANGED <<lvars, evars, cvars, inflight, writes>>

\* the response of every session endpoint for a session that it does not find
NotFound == [code |-> 404]

\* the sessions with the grids (or the text) of the session named id replaced
WithTables(id, grids) ==
    [k \in 1..Len(sessions) |->
        IF sessions[k].id = id THEN [sessions[k] EXCEPT !.tables = grids] ELSE sessions[k]]

WithText(id, text) ==
    [k \in 1..Len(sessions) |->
        IF sessions[k].id = id THEN [sessions[k] EXCEPT !.text = text] ELSE sessions[k]]

\* the lists that update_tables requests carry, and the text of update_text requests
UpdateLists == { <<>>, <<StoredGrid2>> }
UpdateTexts == { <<"u">> }

\* the indices of edit_table_cell requests
EditIndices == 0..1

\* get_tables
GetTables ==
    /\ Serving
    /\ \E id \in RequestIds :
          /\ request' = [op |-> "get_tables", session_id |-> id, n |-> RequestsMade + 1]
          /\ response' = IF ~Exists(JsonPath(id)) THEN NotFound
                         ELSE [code |-> 200, tables |-> temp[JsonPath(id)]]
    /\ UNCHANGED <<uploads, temp, sessions, inflight, writes, lvars, evars, cvars>>

\* update_tables
UpdateTables ==
    /\ Serving
    /\ \E id \in RequestIds, grids \in UpdateLists :
          /\ request' = [op |-> "update_tables", session_id |-> id, tables |-> grids,
                         n |-> RequestsMade + 1]
          /\ IF ~Exists(JsonPath(id))
             THEN /\ response' = NotFound
                  /\ UNCHANGED <<temp, sessions>>
             ELSE /\ temp' = [temp EXCEPT ![JsonPath(id)] = JsonList(grids)]
                  /\ sessions' = WithTables(id, grids)
                  /\ response' = [code |-> 200, success |-> TRUE]
    /\ UNCHANGED <<uploads, inflight, writes, lvars, evars, cvars>>

\* the try block of edit_table_cell, given the loaded JSON value: a dict has no entry for an
\* integer key, so tables[table_index] raises KeyError
EditLoaded(loaded, table_index, row, col, new_value) ==
    IF loaded.kind = "dict"
    THEN [status |-> IF table_index < Cardinality(DOMAIN loaded.value)
                     THEN "KeyError" ELSE "table_range",
          tables |-> <<>>]
    ELSE SetCell(loaded.value, table_index, row, col, new_value)

\* the status code of edit_table_cell
EditCode(status) ==
    CASE status = "ok" -> 200
      [] status \in {"IndexError", "KeyError"} -> 500
      [] OTHER -> 400

\* edit_table_cell, with its load and its store in one step
EditTableCellOfSession ==
    /\ Serving
    /\ \E id \in RequestIds, table_index \in EditIndices, row \in EditIndices,
          col \in EditIndices :
          /\ request' = [op |-> "edit_table_cell", session_id |-> id,
                         table_index |-> table_index, row |-> row, col |-> col,
                         value |-> <<"v">>, n |-> RequestsMade + 1]
          /\ IF ~Exists(JsonPath(id))
             THEN /\ response' = NotFound
                  /\ UNCHANGED <<temp, sessions>>
             ELSE \E out \in { EditLoaded(temp[JsonPath(id)], table_index, row, col, <<"v">>) } :
                     /\ response' = [code |-> EditCode(out.status),
                                     success |-> out.status = "ok"]
                     /\ IF out.status = "ok"
                        THEN /\ temp' = [temp EXCEPT ![JsonPath(id)] = JsonList(out.tables)]
                             /\ sessions' = WithTables(id, out.tables)
                        ELSE UNCHANGED <<temp, sessions>>
    /\ UNCHANGED <<uploads, inflight, writes, lvars, evars, cvars>>

\* the package of download_hwp: the entries written to the ZIP file so far
Package(original, text, json, csv, readme) ==
    [kind |-> "zip", original |-> original, text |-> text, json |-> json, csv |-> csv,
     readme |-> readme]

\* the rows that csv.writer writes for each table
CsvRows(grids) == [k \in 1..Len(grids) |-> grids[k].rows]

\* download_hwp: the ZIP file is created in temp before the tables are read, so it is there
\* also when the loop over the tables raises
DownloadHwp ==
    /\ Serving
    /\ \E id \in RequestIds :
          /\ request' = [op |-> "download_hwp", session_id |-> id, n |-> RequestsMade + 1]
          /\ IF ~Exists(JsonPath(id))
             THEN /\ response' = NotFound
                  /\ UNCHANGED temp
             ELSE IF Exists(SessionJsonPath(id)) /\ temp[SessionJsonPath(id)].kind # "dict"
             THEN \* session_data.get raises AttributeError
                  /\ response' = [code |-> 500]
                  /\ UNCHANGED temp
             ELSE LET known == Exists(SessionJsonPath(id))
                      original_path == temp[SessionJsonPath(id)].value.original_path
                      original == IF known /\ uploads[original_path].exists
                                  THEN uploads[original_path] ELSE Absent
                      json == temp[JsonPath(id)]
                      listed == json.kind = "list"
                      package == Package(original, temp[TextPath(id)], json,
                                         IF listed THEN CsvRows(json.value) ELSE <<>>, listed)
                  IN /\ temp' = [temp EXCEPT ![ZipPath(id)] = package]
                     /\ response' = IF listed THEN [code |-> 200, sent |-> package]
                                    ELSE [code |-> 500]
    /\ UNCHANGED <<uploads, sessions, inflight, writes, lvars, evars, cvars>>

\* convert_hwp_to_hwpx: hwpx_parser has no convert_hwp_to_hwpx, so the import at the start
\* of the try block raises ImportError for every session that is found
ConvertHwpToHwpx ==
    /\ Serving
    /\ \E id \in RequestIds :
          /\ request' = [op |-> "convert_hwp_to_hwpx", session_id |-> id,
                         n |-> RequestsMade + 1]
          /\ response' = IF ~Exists(SessionJsonPath(id)) THEN NotFound ELSE [code |-> 500]
    /\ UNCHANGED <<uploads, temp, sessions, inflight, writes, lvars, evars, cvars>>

\* get_text
GetText ==
    /\ Serving
    /\ \E id \in RequestIds :
          /\ request' = [op |-> "get_text", session_id |-> id, n |-> RequestsMade + 1]
          /\ response' = IF ~Exists(TextPath(id)) THEN NotFound
                         ELSE [code |-> 200, text |-> temp[TextPath(id)].value]
    /\ UNCHANGED <<uploads, temp, sessions, inflight, writes, lvars, evars, cvars>>

\* update_text
UpdateText ==
    /\ Serving
    /\ \E id \in RequestIds, text \in UpdateTexts :
          /\ request' = [op |-> "update_text", session_id |-> id, text |-> text,
                         n |-> RequestsMade + 1]
          /\ IF ~Exists(TextPath(id))
             THEN /\ response' = NotFound
                  /\ UNCHANGED <<temp, sessions>>
             ELSE /\ temp' = [temp EXCEPT ![TextPath(id)] = TextFile(text)]
                  /\ sessions' = WithText(id, text)
                  /\ response' = [code |-> 200, success |-> TRUE]
    /\ UNCHANGED <<uploads, inflight, writes, lvars, evars, cvars>>

\* download_json
DownloadJson ==
    /\ Serving
    /\ \E id \in RequestIds :
          /\ request' = [op |-> "download_json", session_id |-> id, n |-> RequestsMade + 1]
          /\ response' = IF ~Exists(JsonPath(id)) THEN NotFound
                         ELSE [code |-> 200, sent |-> temp[JsonPath(id)]]
    /\ UNCHANGED <<uploads, temp, sessions, inflight, writes, lvars, evars, cvars>>

\* a plausible slip: the editor gets the grids that the session record holds since the upload
SaveAndSendUploadCopy(id, original, tables_data) ==
    \E res \in { SaveHwpxWithTables(original, temp[SessionJsonPath(id)].value.tables) } :
        /\ temp' = IF res.written THEN [temp EXCEPT ![EditedPath(id)] = res.out] ELSE temp
        /\ response' = IF res.ret
                       THEN [code |-> 200, sent |-> res.out, original |-> original,
                             tables |-> temp[SessionJsonPath(id)].value.tables]
                       ELSE [code |-> 500, original |-> original,
                             tables |-> temp[SessionJsonPath(id)].value.tables]

\* the end of download_hwpx, given the original file and the loaded grid list: the call of
\* save_hwpx_with_tables, the file it writes and the response
SaveAndSend(id, original, tables_data) ==
    \E res \in { SaveHwpxWithTables(original, tables_data) } :
        /\ temp' = IF res.written THEN [temp EXCEPT ![EditedPath(id)] = res.out] ELSE temp
        /\ response' = IF res.ret
                       THEN [code |-> 200, sent |-> res.out, original |-> original,
                             tables |-> tables_data]
                       ELSE [code |-> 500, original |-> original, tables |-> tables_data]

\* download_hwpx
DownloadHwpx ==
    /\ Serving
    /\ \E id \in RequestIds :
          /\ request' = [op |-> "download_hwpx", session_id |-> id, n |-> RequestsMade + 1]
          /\ IF ~Exists(JsonPath(id)) \/ ~Exists(SessionJsonPath(id))
             THEN /\ response' = NotFound
                  /\ UNCHANGED temp
             ELSE IF temp[SessionJsonPath(id)].kind # "dict"
             THEN \* session_data.get raises AttributeError
                  /\ response' = [code |-> 500]
                  /\ UNCHANGED temp
             ELSE LET session_data == temp[SessionJsonPath(id)].value
                  IN IF session_data.file_type # HWPX
                     THEN /\ response' = [code |-> 400]
                          /\ UNCHANGED temp
                     ELSE IF ~uploads[session_data.original_path].exists
                     THEN /\ response' = NotFound
                          /\ UNCHANGED temp
                     ELSE IF temp[JsonPath(id)].kind # "list"
                     THEN \* tables_data[table_idx] raises KeyError within the editor
                          /\ response' = [code |-> 500]
                          /\ UNCHANGED temp
                     ELSE SaveAndSend(id, uploads[session_data.original_path],
                                      temp[JsonPath(id)].value)
    /\ UNCHANGED <<uploads, sessions, inflight, writes, lvars, evars, cvars>>

ANext ==
    \/ UploadFile
    \/ GetTables
    \/ UpdateTables
    \/ EditTableCellOfSession
    \/ DownloadHwp
    \/ ConvertHwpToHwpx
    \/ GetText
    \/ UpdateText
    \/ DownloadJson
    \/ DownloadHwpx

SpecApp == AInit /\ [][ANext]_vars

----------------------------------------------------------------------------
(* Two callers at the same session: the server handles requests in threads, *)
(* and nothing in app.py locks the session files. A handler is a sequence   *)
(* of steps on the file: the test of its existence, the load by json.load,  *)
(* open(json_path, 'w'), which empties the file, and the end of the with    *)
(* block, which writes the buffered text of json.dump from the start of     *)
(* the file. inflight holds the position of each caller, writes the stores  *)
(* that have completed.                                                     *)

Callers == 1..2

RECURSIVE SumOf(_)
SumOf(seq) == IF seq = <<>> THEN 0 ELSE seq[1] + SumOf(Tail(seq))

\* the length of the text of a list or dict that json.dump writes with indent=2 at nesting
\* depth d, given the lengths of the texts of its items: the brackets, the items each on a
\* line of its own behind 2 * (d + 1) spaces, the commas, and the last line
IndentedSize(d, item_sizes) ==
    IF item_sizes = <<>> THEN 2
    ELSE 1 + SumOf(item_sizes) + Len(item_sizes) * (1 + 2 * (d + 1))
           + (Len(item_sizes) - 1) + 1 + 2 * d + 1

\* the length of a key with its quotes, the colon and the space
KeySize(key) == Len(key) + 4

Digits(n) == Len(ToString(n))

\* the length of the text of json.dump(tables, f, ensure_ascii=False, indent=2) for a list
\* of grids with the keys rows, row_count and col_count
JsonSize(grids) ==
    IndentedSize(0,
        [k \in 1..Len(grids) |->
            IndentedSize(1,
                << KeySize(<<"r", "o", "w", "s">>)
                     + IndentedSize(2,
                          [r \in 1..Len(grids[k].rows) |->
                              IndentedSize(3,
                                  [c \in 1..Len(grids[k].rows[r]) |->
                                      Len(grids[k].rows[r][c]) + 2])]),
                   KeySize(<<"r", "o", "w", "_", "c", "o", "u", "n", "t">>)
                     + Digits(grids[k].row_count),
                   KeySize(<<"c", "o", "l", "_", "c", "o", "u", "n", "t">>)
                     + Digits(grids[k].col_count) >>)])

\* the file after open(json_path, 'w'), and a file that holds the text of a list followed
\* by the end of a longer text that was there before
Truncated == [kind |-> "empty", value |-> <<>>]
Garbled(grids, size) == [kind |-> "garbled", value |-> [head |-> grids, size |-> size]]

FileSize(file) ==
    CASE file.kind = "list" -> JsonSize(file.value)
      [] file.kind = "empty" -> 0
      [] OTHER -> file.value.size

\* a store that replaces the file in one step
OverwrittenWhole(file, grids) == JsonList(grids)

\* the file after the text of grids has been written from its start
Overwritten(file, grids) ==
    IF FileSize(file) <= JsonSize(grids) THEN JsonList(grids)
    ELSE Garbled(grids, FileSize(file))

\* the session that the callers address, and its list file
RaceId == NewSessionId(1)
RacePath == JsonPath(RaceId)

\* the values of the edit requests of the callers, of different lengths
RaceValues == { <<"v">>, <<"w", "w", "w">> }

\* the requests of a caller at the start of its handler
RaceRequests ==
    { [op |-> "edit_table_cell", table_index |-> 0, row |-> row, col |-> col,
       value |-> value, tables |-> <<>>, pc |-> "start", loaded |-> <<>>,
       towrite |-> <<>>, code |-> 0] :
        row \in 0..1, col \in 0..1, value \in RaceValues }
    \cup
    { [op |-> "update_tables", table_index |-> 0, row |-> 0, col |-> 0,
       value |-> <<>>, tables |-> grids, pc |-> "start", loaded |-> <<>>,
       towrite |-> <<>>, code |-> 0] : grids \in UpdateLists }

\* the session exists, with StoredGrid1 as its list, and each caller has sent a request
RaceInit ==
    /\ LOff
    /\ EOff
    /\ COff
    /\ uploads = [name \in UploadNames |-> NoFile]
    /\ temp = [name \in TempNames |->
                 IF name = RacePath THEN JsonList(<<StoredGrid1>>) ELSE Absent]
    /\ sessions = <<NewSession(RaceId, CHOOSE name \in UploadNames : TRUE, NoFile, <<>>, <<StoredGrid1>>)>>
    /\ request = None
    /\ response = None
    /\ inflight \in [Callers -> RaceRequests]
    /\ writes = <<>>

Racing == inflight # None

CallerAt(p, pos) == Racing /\ inflight[p].pc = pos

Finish(p, code) == [inflight EXCEPT ![p].pc = "done", ![p].code = code]

\* the test os.path.exists(json_path); update_tables reads request.get_json() and goes on
\* to its store
RaceExists(p) ==
    /\ CallerAt(p, "start")
    /\ inflight' =
          IF ~Exists(RacePath) THEN Finish(p, 404)
          ELSE IF inflight[p].op = "update_tables"
          THEN [inflight EXCEPT ![p].pc = "open", ![p].towrite = inflight[p].tables]
          ELSE [inflight EXCEPT ![p].pc = "load"]
    /\ UNCHANGED <<uploads, temp, sessions, request, response, writes, lvars, evars, cvars>>

\* json.load and the edit in memory: a file that holds no list raises, an index out of
\* range sends 400 or raises
RaceLoad(p) ==
    /\ CallerAt(p, "load")
    /\ inflight' =
          IF temp[RacePath].kind # "list" THEN Finish(p, 500)
          ELSE LET r == inflight[p]
                   out == SetCell(temp[RacePath].value, r.table_index, r.row, r.col, r.value)
               IN IF out.status # "ok" THEN Finish(p, EditCode(out.status))
                  ELSE [inflight EXCEPT ![p].pc = "open",
                                        ![p].loaded = temp[RacePath].value,
                                        ![p].towrite = out.tables]
    /\ UNCHANGED <<uploads, temp, sessions, request, response, writes, lvars, evars, cvars>>

\* open(json_path, 'w')
RaceOpen(p) ==
    /\ CallerAt(p, "open")
    /\ temp' = [temp EXCEPT ![RacePath] = Truncated]
    /\ inflight' = [inflight EXCEPT ![p].pc = "write"]
    /\ UNCHANGED <<uploads, sessions, request, response, writes, lvars, evars, cvars>>

\* the end of the with block and the response
RaceWrite(p) ==
    /\ CallerAt(p, "write")
    /\ temp' = [temp EXCEPT ![RacePath] = Overwritten(temp[RacePath], inflight[p].towrite)]
    /\ writes' = Append(writes, [by |-> p, tables |-> inflight[p].towrite])
    /\ inflight' = Finish(p, 200)
    /\ UNCHANGED <<uploads, sessions, request, response, lvars, evars, cvars>>

RaceNext ==
    \E p \in Callers :
        \/ RaceExists(p)
        \/ RaceLoad(p)
        \/ RaceOpen(p)
        \/ RaceWrite(p)

SpecRace == RaceInit /\ [][RaceNext]_vars

----------------------------------------------------------------------------
(* The XML view of sections and archives that the claims about the editor  *)
(* are stated in                                                           *)

\* the document of a section part, as an XML parser that accepts a byte string sees it
SectionDoc(bytes) == XmlParse(DecodeUtf8(bytes).text)

\* a fragment as a document: the fragment inside a root element that declares the prefix
FragmentDoc(fragment) == XmlParse(ROOT_OPEN_TAG \o fragment \o ROOT_CLOSE_TAG)

\* stands for the text of a cell's first text element where the cell has none
NoTextElement == <<"[no text element]">>

\* the text of the first text element of the cell that starts at token tc
FirstText(doc, tc) ==
    LET ts == ElemsIn(doc, tc, End(doc, tc), T_NAME)
    IN IF ts = <<>> THEN NoTextElement ELSE ElemText(doc, ts[1])

\* per row element of the table at token tbl, the tokens that start its cell elements
CellTokens(doc, tbl) ==
    LET trs == ElemsIn(doc, tbl, End(doc, tbl), TR_NAME)
    IN [r \in 1..Len(trs) |-> ElemsIn(doc, trs[r], End(doc, trs[r]), TC_NAME)]

\* per table of the document, per row, per cell: the text of the cell's first text element
FirstTextGrids(doc) ==
    IF ~doc.ok THEN <<>>
    ELSE LET tbls == ElemsIn(doc, 1, Len(doc.toks), TBL_NAME)
         IN [k \in 1..Len(tbls) |->
               LET cells == CellTokens(doc, tbls[k])
               IN [r \in 1..Len(cells) |->
                     [c \in 1..Len(cells[r]) |-> FirstText(doc, cells[r][c])]]]

\* the same for all tables of an archive, sections in order, tables in document order
ArchiveFirstTexts(archive) ==
    Join([n \in 1..Len(archive.sections) |-> FirstTextGrids(SectionDoc(archive.sections[n]))])

\* the tokens of the element that starts at token i
ElemTokens(doc, i) == SubSeq(doc.toks, i, End(doc, i))

\* per table of the document, per row, per cell: the tokens of the cell element
CellContents(doc) ==
    LET tbls == ElemsIn(doc, 1, Len(doc.toks), TBL_NAME)
    IN [k \in 1..Len(tbls) |->
          LET cells == CellTokens(doc, tbls[k])
          IN [r \in 1..Len(cells) |->
                [c \in 1..Len(cells[r]) |-> ElemTokens(doc, cells[r][c])]]]

\* the texts between '<hp:tbl' and '</hp:tbl>' of a section, in order
TableTexts(text) ==
    LET ms == FindIter(text, 0, TBL_OPEN, TBL_CLOSE)
    IN [k \in 1..Len(ms) |-> PySlice(text, ms[k].start, ms[k].end)]

\* the same for all tables of an archive
ArchiveTableTexts(archive) ==
    Join([n \in 1..Len(archive.sections) |-> TableTexts(DecodeUtf8(archive.sections[n]).text)])

\* the texts outside the tables of a section: before the first, between, after the last
OutsideTables(text) ==
    LET ms == FindIter(text, 0, TBL_OPEN, TBL_CLOSE)
        n == Len(ms)
    IN [k \in 1..(n + 1) |->
          PySlice(text, IF k = 1 THEN 0 ELSE ms[k - 1].end,
                        IF k = n + 1 THEN Len(text) ELSE ms[k].start)]

WellFormedArchive(archive) ==
    archive.ok /\ \A n \in 1..Len(archive.sections) : SectionDoc(archive.sections[n]).ok

Saved == estep \in {"saved", "reparsed"}

InputArchive == fs[OriginalPath]
OutputArchive == fs[OutputPath(SessionId)]

----------------------------------------------------------------------------
(* Claims about the archive editor *)

\* C1: after save_hwpx_with_tables, for every table with a matching target grid and every
\* cell (r,c) inside both the table's shape and the grid's shape, the first text element of
\* the cell in the saved archive holds exactly target[r][c], whatever the cell's structure.
C1_FirstTextIsTarget ==
    (Saved /\ saved.ret) =>
        LET in == ArchiveFirstTexts(InputArchive)
            out == ArchiveFirstTexts(OutputArchive)
        IN \A k \in 1..Len(in) : k <= Len(session_tables) =>
              LET target == session_tables[k].rows
              IN \A r \in 1..Len(in[k]) : r <= Len(target) =>
                    \A c \in 1..Len(in[k][r]) : c <= Len(target[r]) =>
                        /\ k <= Len(out)
                        /\ r <= Len(out[k])
                        /\ c <= Len(out[k][r])
                        /\ out[k][r][c] = target[r][c]

\* C2: the output of _modify_tables_with_regex has the same number of tables as its input,
\* and the text before the first table, between tables and after the last table is
\* identical to the input's, also when an edit makes a cell's text longer or shorter.
C2_OutsideTablesUnchanged ==
    (returned # None /\ call.fn = "_modify_tables_with_regex") =>
        OutsideTables(returned.value) = OutsideTables(call.content)

\* C3: the k-th table counted across all sections of the archive is edited with
\* target_grids[k] if there is such a grid and is left untouched otherwise.
C3_GlobalTableMatching ==
    (Saved /\ saved.ret) =>
        LET in == ArchiveTableTexts(InputArchive)
            out == ArchiveTableTexts(OutputArchive)
        IN /\ Len(out) = Len(in)
           /\ \A k \in 1..Len(in) :
                 out[k] = IF k <= Len(session_tables) /\ session_tables[k].rows # <<>>
                          THEN ModifySingleTableRegex(in[k], session_tables[k].rows)
                          ELSE in[k]

\* C4: for a well-formed archive, saving with exactly the grids parse_hwpx returned succeeds
\* and the saved archive parses to those same grids.
C4_RoundTrip ==
    /\ (estep = "saved" /\ saved.unedited /\ WellFormedArchive(InputArchive)) => saved.ret
    /\ (estep = "reparsed" /\ saved.unedited /\ WellFormedArchive(InputArchive)) =>
          /\ reparsed.success
          /\ reparsed.tables = parsed.tables

\* the number of elements with that local name in the document
CountElems(doc, local) == Len(ElemsIn(doc, 1, Len(doc.toks), local))

\* the shape of the target grid differs from the shape cells has
ShapeDiffers(cells, new_rows) ==
    \/ Len(new_rows) # Len(cells)
    \/ \E r \in 1..Len(new_rows) : r <= Len(cells) /\ Len(new_rows[r]) # Len(cells[r])

\* C5: when the target grid's shape differs from the table's shape, the edited table is
\* still a well-formed fragment with as many row elements and as many cell elements as
\* before, and every cell outside the overlap of the two shapes (a row beyond the target's
\* rows, a cell beyond the target row's cells) is exactly as it was.
C5_OnlyOverlapChanges ==
    (returned # None /\ call.fn = "_modify_single_table_regex") =>
        LET in == FragmentDoc(call.tbl_content)
            out == FragmentDoc(returned.value)
            cin == CellContents(in)[1]
            cout == CellContents(out)[1]
        IN ShapeDiffers(cin, call.new_rows) =>
              /\ out.ok
              /\ CountElems(out, TR_NAME) = CountElems(in, TR_NAME)
              /\ CountElems(out, TC_NAME) = CountElems(in, TC_NAME)
              /\ Len(cout) = Len(cin)
              /\ \A r \in 1..Len(cin) :
                    /\ Len(cout[r]) = Len(cin[r])
                    /\ \A c \in 1..Len(cin[r]) :
                          (r > Len(call.new_rows) \/ c > Len(call.new_rows[r])) =>
                              cout[r][c] = cin[r][c]

RUN_NAME == <<"r", "u", "n">>

\* the tokens of a text element with that content
TextElement(text) ==
    <<[k |-> "open", name |-> PyFrom(PyTo(T_OPEN, Len(T_OPEN) - 1), 1)]>>
    \o (IF text = <<>> THEN <<>> ELSE <<[k |-> "text", text |-> text]>>)
    \o <<[k |-> "close", name |-> PyFrom(PyTo(T_OPEN, Len(T_OPEN) - 1), 1)]>>

\* C6: for a cell with no text element whose only run is self-closing, the edited cell is
\* the cell with that run opened (its attributes kept), one text element holding the new
\* value inside it, the run closed, and everything before and after the run as it was.
C6_SelfClosingRunExpanded ==
    (returned # None /\ call.fn = "_modify_cell_text_regex") =>
        LET in == FragmentDoc(call.tc_content)
            out == FragmentDoc(returned.value)
            runs == ElemsIn(in, 1, Len(in.toks), RUN_NAME)
            i == runs[1]
            run == in.toks[i]
            m == FirstSelfClosingRun(call.tc_content)
            tail == Len(call.tc_content) - m.end
        IN (Len(runs) = 1 /\ run.k = "empty" /\ CountElems(in, T_NAME) = 0) =>
              /\ out.ok
              /\ out.toks = SubSeq(in.toks, 1, i - 1)
                            \o <<[k |-> "open", name |-> run.name]>>
                            \o TextElement(call.new_text)
                            \o <<[k |-> "close", name |-> run.name]>>
                            \o SubSeq(in.toks, i + 1, Len(in.toks))
              \* the characters up to the end of the run's attributes, and after the run
              /\ PyTo(returned.value, m.slash) = PyTo(call.tc_content, m.slash)
              /\ PyFrom(returned.value, Len(returned.value) - tail)
                    = PyFrom(call.tc_content, m.end)

\* C7: save_hwpx_with_tables returns success and writes an output archive exactly if the
\* input archive could be opened; the output then has the input's sections, and a section
\* whose fragment is malformed is written byte-identical.
C7_OutputIffOpened ==
    Saved =>
        /\ saved.ret <=> InputArchive.ok
        /\ OutputArchive.exists <=> InputArchive.ok
        /\ InputArchive.ok =>
              /\ Len(OutputArchive.sections) = Len(InputArchive.sections)
              /\ \A n \in 1..Len(InputArchive.sections) :
                    ~SectionDoc(InputArchive.sections[n]).ok =>
                        OutputArchive.sections[n] = InputArchive.sections[n]

\* C8: no step changes the file at original_path, and save_hwpx_with_tables writes to a
\* path other than original_path and to no other file.
C8_InputNeverModified ==
    [][ /\ fs'[OriginalPath] = fs[OriginalPath]
        /\ estep' = "saved" =>
              /\ OutputPath(SessionId) # OriginalPath
              /\ \A p \in Paths \ {OutputPath(SessionId)} : fs'[p] = fs[p] ]_vars

\* C8 witness: a save has succeeded and written an archive that differs from the original,
\* which is still there
C8_Witness ==
    /\ estep = "saved"
    /\ saved.ret
    /\ OutputArchive.exists
    /\ InputArchive.exists
    /\ OutputArchive.sections # InputArchive.sections

----------------------------------------------------------------------------
(* Claims about the modern reader *)

\* the texts of the t descendants of the first cell of a described table, in document order
TextElementsOf(kind) ==
    CASE kind = "text" -> << <<"a">> >>
      [] kind \in {"emptyT", "selfT"} -> << <<>> >>
      [] kind = "twoT" -> << <<"a">>, <<"b">> >>
      [] kind = "entity" -> << <<"&">> >>
      [] kind = "nested" -> << <<"a">>, <<"n">> >>
      [] OTHER -> <<>>

\* the tc descendants of the r-th tr of a described table, as their texts: the cells of the
\* tr, and after the first cell of the table the cell of the table nested in it
DescribedRow(desc, r) ==
    [c \in 1..desc.shape[r] |->
        IF r = 1 /\ c = 1 THEN Join(TextElementsOf(desc.kind)) ELSE OtherText(r, c)]

DescribedRowWithNested(desc, r) ==
    IF r = 1 /\ desc.kind = "nested"
    THEN <<DescribedRow(desc, 1)[1], <<"n">>>> \o Tail(DescribedRow(desc, 1))
    ELSE DescribedRow(desc, r)

\* the tr descendants of a described table, in document order, each as its tc descendants:
\* the tr of a nested table follows the tr that contains it
DescribedRows(desc) ==
    Join([r \in 1..Len(desc.shape) |->
            IF r = 1 /\ desc.kind = "nested"
            THEN <<DescribedRowWithNested(desc, 1), << <<"n">> >> >>
            ELSE <<DescribedRowWithNested(desc, r)>>])

\* the grids the claim describes for the tbl elements of a described section, in document
\* order: one for every tbl that has a tr, the nested tbl after the tbl that contains it
DescribedGrids(descs) ==
    Join([k \in 1..Len(descs) |->
            (IF DescribedRows(descs[k]) = <<>> THEN <<>> ELSE <<DescribedRows(descs[k])>>)
            \o (IF descs[k].kind = "nested" THEN << << << <<"n">> >> >> >> ELSE <<>>)])

\* the grids parse_hwpx returned
ReturnedGrids == [k \in 1..Len(returned.value.tables) |-> returned.value.tables[k].rows]

\* C14: for every tbl element of a section the grid of the modern reader has as its rows, in
\* document order, the tr descendants of the tbl, and as the cells of each row the tc
\* descendants of that tr, each with the concatenated text of its t descendants; a table
\* with zero rows is not emitted.
C14_GridIsRowsAndCellsOfTable ==
    (call # None /\ call.fn = "parse_hwpx" /\ call.desc # <<>> /\ returned # None) =>
        ReturnedGrids = DescribedGrids(call.desc)

\* the grids a reader has produced: those parse_tables has appended so far, or those
\* parse_hwpx returned
ProducedGrids ==
    IF call # None
    THEN IF call.fn = "parse_hwpx" /\ returned # None THEN returned.value.tables ELSE <<>>
    ELSE tables

\* row_count == len(rows) and col_count == max(len(r) for r in rows)
ShapeInvariant(grid) ==
    /\ grid.rows # <<>>
    /\ grid.row_count = Len(grid.rows)
    /\ grid.col_count = MaxOf({ Len(grid.rows[r]) : r \in 1..Len(grid.rows) })

\* C15: every grid produced by parse_tables and by parse_hwpx has row_count == len(rows) and
\* col_count == max(len(r) for r in rows).
C15_CountsMatchRows ==
    \A k \in 1..Len(ProducedGrids) : ShapeInvariant(ProducedGrids[k])

\* C15 witness: parse_hwpx returned a grid whose rows have one and two cells, with
\* col_count 2
C15_Witness ==
    /\ call # None
    /\ call.fn = "parse_hwpx"
    /\ returned # None
    /\ \E k \in 1..Len(returned.value.tables) :
          LET grid == returned.value.tables[k]
          IN /\ Len(grid.rows) = 2
             /\ Len(grid.rows[1]) = 1
             /\ Len(grid.rows[2]) = 2
             /\ grid.col_count = 2

\* C16: every grid produced by either reader is rectangular: every row has exactly col_count
\* cells, also when the rows of a modern-format table have different numbers of cell
\* elements.
C16_Rectangular ==
    \A k \in 1..Len(ProducedGrids) :
        \A r \in 1..Len(ProducedGrids[k].rows) :
            Len(ProducedGrids[k].rows[r]) = ProducedGrids[k].col_count

\* the section parts of the model whose XML is malformed
MalformedSections == { MalformedSection, BareAmpSection }

\* the archive with its n-th section replaced by a well-formed section without content
WithEmptySection(archive, n) ==
    [archive EXCEPT !.sections = [@ EXCEPT ![n] = EmptySection]]

\* C17: a section part whose XML is malformed contributes empty text and no tables and does
\* not abort parse_hwpx: the result is a success, and it is the result for the archive in
\* which the malformed section is replaced by a well-formed empty one.
C17_MalformedSectionIsEmpty ==
    (call # None /\ call.fn = "parse_hwpx" /\ returned # None) =>
        \A n \in 1..Len(call.archive.sections) :
            call.archive.sections[n] \in MalformedSections =>
                /\ returned.value.success
                /\ ParseSectionXml(call.archive.sections[n]) = [text |-> <<>>, tables |-> <<>>]
                /\ returned.value = ParseHwpx(WithEmptySection(call.archive, n))

\* C17 witness: a malformed section between two sections with a table each; both tables
\* and both texts were returned
C17_Witness ==
    /\ call # None
    /\ call.fn = "parse_hwpx"
    /\ returned # None
    /\ call.archive.sections =
          <<SectionXml(1, "text", <<>>), MalformedSection, SectionXml(1, "twoT", <<>>)>>
    /\ returned.value.success
    /\ Len(returned.value.tables) = 2
    /\ returned.value.text = <<"a", "\n", "\n", "a", "b">>

----------------------------------------------------------------------------
(* Claims about the legacy reader *)

\* the pending cells of src recorded at the 0-based coordinates (r, c)
CellsAt(src, r, c) == { k \in 1..Len(src.cells) : src.cells[k].row = r /\ src.cells[k].col = c }

\* C9: every emitted grid has exactly `rows` rows of exactly `cols` strings; grid[r][c] is
\* the accumulated text of the pending cell recorded at (r,c) (the last one recorded there)
\* and the empty string where no pending cell has those coordinates; so a pending cell
\* outside [0,rows) x [0,cols) shows in no cell of the grid, and the build returns a grid.
C9_GridIsScatterOfPendingCells ==
    /\ Len(built_from) = Len(tables)
    /\ \A i \in 1..Len(tables) :
          LET src == built_from[i]
              grid == tables[i].rows
          IN /\ Len(grid) = src.info.rows
             /\ tables[i].row_count = src.info.rows
             /\ tables[i].col_count = src.info.cols
             /\ \A r \in 1..Len(grid) :
                   /\ Len(grid[r]) = src.info.cols
                   /\ \A c \in 1..Len(grid[r]) :
                         LET K == CellsAt(src, r - 1, c - 1)
                         IN grid[r][c] = IF K = {} THEN <<>> ELSE src.cells[MaxOf(K)].text

\* C9 witness: a grid was emitted from pending cells of which one lies outside the declared
\* dimensions and carries text, and another lies inside and carries text
C9_Witness ==
    \E i \in 1..Len(tables) :
        LET src == built_from[i]
        IN /\ \E k \in 1..Len(src.cells) :
                 /\ (src.cells[k].row >= src.info.rows \/ src.cells[k].col >= src.info.cols)
                 /\ src.cells[k].text # <<>>
           /\ \E k \in 1..Len(src.cells) :
                 /\ src.cells[k].row < src.info.rows /\ src.cells[k].col < src.info.cols
                 /\ src.cells[k].text # <<>>
                 /\ tables[i].rows[src.cells[k].row + 1][src.cells[k].col + 1] = src.cells[k].text

\* C10: a text record that arrives while a table is open and a cell is pending is appended,
\* in arrival order, to the text of the most recently appended pending cell and to no other
\* cell; text that arrives while no cell is pending (or no table is open) changes no cell.
C10_TextGoesToLastPendingCell ==
    [][ (last_rec'.type = "ParaText" /\ nrec' = nrec + 1) =>
          IF in_table /\ current_cells_data # <<>>
          THEN LET n == Len(current_cells_data)
               IN /\ Len(current_cells_data') = n
                  /\ current_cells_data'[n].text =
                        current_cells_data[n].text \o Join(last_rec'.text_parts)
                  /\ current_cells_data'[n].row = current_cells_data[n].row
                  /\ current_cells_data'[n].col = current_cells_data[n].col
                  /\ \A k \in 1..(n - 1) : current_cells_data'[k] = current_cells_data[k]
          ELSE current_cells_data' = current_cells_data ]_lvars

\* C10 witness: two text records after the second TableCell were concatenated into that
\* cell, the first cell got none of it
C10_Witness ==
    /\ last_rec.type = "ParaText"
    /\ in_table
    /\ Len(current_cells_data) = 2
    /\ current_cells_data[1].text = <<>>
    /\ current_cells_data[2].text = <<"a", "b", "c">>

\* a table segment that the claim says is emitted: it received a TableBody, at least one
\* TableCell, and its dimensions are both non-zero
SegmentEmits(seg) ==
    /\ seg # None
    /\ seg.body # None
    /\ seg.cells # <<>>
    /\ seg.body.rows # 0
    /\ seg.body.cols # 0

\* the coordinates of a list of pending cells
CoordsOf(cells_data) ==
    [k \in 1..Len(cells_data) |-> [row |-> cells_data[k].row, col |-> cells_data[k].col]]

\* C11: parse_tables emits, in stream order, exactly one grid for each table segment (from a
\* TableControl to the next TableControl or the end of the section) that received a TableBody,
\* at least one TableCell and non-zero rows and cols; every other segment emits nothing; the
\* grid of a segment is built from the dimensions and the cells of that segment only; what
\* parse_tables returns is the list of the emitted grids.
C11_OneGridPerCompleteSegment ==
    [][ pc = "run" =>
          /\ IF last_rec'.type \in {"TableControl", "EndSection", "EndStream"}
                 /\ SegmentEmits(segment)
             THEN /\ Len(tables') = Len(tables) + 1
                  /\ SubSeq(tables', 1, Len(tables)) = tables
                  /\ Last(tables').row_count = segment.body.rows
                  /\ Last(tables').col_count = segment.body.cols
                  /\ Len(built_from') = Len(tables')
                  /\ Last(built_from').info = segment.body
                  /\ CoordsOf(Last(built_from').cells) = segment.cells
             ELSE tables' = tables
          /\ last_rec'.type = "EndStream" => result' = tables' ]_lvars

\* C11 witness: a stream of two complete table segments has been read to its end; two grids
\* were returned, each built from the one cell of its own segment
C11_Witness ==
    /\ pc = "returned"
    /\ last_rec.type = "EndStream"
    /\ Len(result) = 2
    /\ Len(built_from[1].cells) = 1
    /\ Len(built_from[2].cells) = 1
    /\ built_from[1].cells[1].col # built_from[2].cells[1].col

\* C12: when the decoder is missing or raises at any point of the stream, parse_tables
\* returns the empty list and parse_hwp returns None, whatever was completed before; both
\* return to the caller (neither raises).
C12_RaiseGivesEmptyResult ==
    last_rec.type = "Raise" =>
        /\ pc \in {"returned", "text_returned"}
        /\ pc = "returned" => result = <<>>
        /\ pc = "text_returned" => result = None

\* C12 witness: the decoder raised after parse_tables had completed a table
C12_Witness ==
    /\ last_rec.type = "Raise"
    /\ pc = "returned"
    /\ tables # <<>>

\* the text the claim describes for a stream of records: for each ParaText record in order
\* its str chunks followed by one newline, nothing for any other record
RECURSIVE TextOfStream(_)
TextOfStream(records) ==
    IF records = <<>> THEN <<>>
    ELSE (IF Head(records).type = "ParaText"
          THEN Join(StrContents(Head(records).chunks)) \o <<"\n">>
          ELSE <<>>)
         \o TextOfStream(Tail(records))

\* C13: parse_hwp returns the concatenation, in stream order over all sections, of every str
\* chunk, with exactly one newline after the chunks of each ParaText record, whether the
\* record lies inside or outside a table.
C13_TextIsChunksAndNewlines ==
    (pc = "text_returned" /\ last_rec.type = "EndStream") =>
        result = [text |-> TextOfStream(stream)]

\* C13 witness: text before a table and text of several chunks (one of them a control
\* character) inside a table cell were returned, each followed by one newline
C13_Witness ==
    /\ pc = "text_returned"
    /\ last_rec.type = "EndStream"
    /\ Len(stream) = 4
    /\ stream[1].type = "ParaText"
    /\ stream[2].type = "TableControl"
    /\ stream[3].type = "TableCell"
    /\ stream[4].type = "ParaText"
    /\ result = [text |-> <<"a", "\n", "b", "c", "\n">>]

----------------------------------------------------------------------------
(* Claims about directed cell edits *)

\* i is one of the indices 0 .. n-1
ValidIndex(i, n) == 0 <= i /\ i < n

\* the request of a step names a table and a row of the stored list
NamesStoredRow(c) ==
    /\ ValidIndex(c.table_index, Len(session_tables))
    /\ ValidIndex(c.row, Len(session_tables[c.table_index + 1].rows))

\* C18: a directed cell edit (edit_table_data, edit_table_cell) whose table_index is not a
\* valid index of the stored grid list, or whose row is not a valid row index of that grid,
\* reports failure and leaves the persisted grid list exactly as it was.
C18_OutOfRangeEditFailsWithoutMutation ==
    [][ (call' # call /\ ~NamesStoredRow(call')) =>
            /\ ~returned'.success
            /\ session_tables' = session_tables ]_vars

\* C19: a directed cell edit with a valid table and row and col >= len(row) succeeds: the row
\* is extended to length col+1, the cells between the old end and col are empty strings, the
\* cell at col is the new value, the cells the row had keep their values, and every other
\* row and every other table is unchanged.
C19_ColumnOverflowExtendsRow ==
    [][ (/\ call' # call
         /\ NamesStoredRow(call')
         /\ call'.col >= Len(session_tables[call'.table_index + 1].rows[call'.row + 1])) =>
            LET t == call'.table_index + 1
                r == call'.row + 1
                old == session_tables[t].rows[r]
                new == session_tables'[t].rows[r]
            IN /\ returned'.success
               /\ Len(session_tables') = Len(session_tables)
               /\ \A k \in 1..Len(session_tables) :
                     k # t => session_tables'[k] = session_tables[k]
               /\ Len(session_tables'[t].rows) = Len(session_tables[t].rows)
               /\ \A q \in 1..Len(session_tables[t].rows) :
                     q # r => session_tables'[t].rows[q] = session_tables[t].rows[q]
               /\ Len(new) = call'.col + 1
               /\ \A k \in 1..Len(old) : new[k] = old[k]
               /\ \A k \in (Len(old) + 1)..call'.col : new[k] = <<>>
               /\ new[call'.col + 1] = call'.value ]_vars

\* C19 witness: the one-cell row ['a'] of the first grid was edited at column 2 and is now
\* ['a', '', 'v']
C19_Witness ==
    /\ call # None
    /\ call.fn \in {"edit_table_data", "edit_table_cell"}
    /\ call.table_index = 0
    /\ call.row = 0
    /\ call.col = 2
    /\ returned.success
    /\ session_tables[1].rows[1] = << <<"a">>, <<>>, <<"v">> >>

\* C20: after any sequence of directed cell edits every stored grid has
\* col_count == max(len(row) for row in rows).
C20_ColCountIsMaxWidth ==
    \A k \in 1..Len(session_tables) :
        session_tables[k].col_count =
            MaxOf({ Len(session_tables[k].rows[r]) : r \in 1..Len(session_tables[k].rows) })

----------------------------------------------------------------------------
(* Claims about the sessions of app.py *)

\* a session with that identifier has been created
Created(id) == \E k \in 1..Len(sessions) : sessions[k].id = id

\* the step handles a request of a session endpoint
SessionRequest == request' # request /\ request'.op # "upload_file"

\* C21: every session read or edit operation (get_tables, update_tables, edit_table_cell,
\* get_text, update_text, download_json, download_hwp, download_hwpx, convert_hwp_to_hwpx)
\* called with an identifier for which no session was created returns the not-found outcome
\* and creates or changes no stored data; it never returns a success.
C21_UnknownSessionIsNotFound ==
    [][ (SessionRequest /\ ~Created(request'.session_id)) =>
            /\ response' = NotFound
            /\ temp' = temp
            /\ uploads' = uploads ]_vars

----------------------------------------------------------------------------
(* Claims about the splices of the pattern-based editor *)

\* s with the span of each match of ms replaced by the replacement of the same position,
\* and everything between the spans kept: the spans are those of the matched elements in s
Reassemble(s, ms, reps) ==
    LET n == Len(ms)
        gap(i) == PySlice(s, IF i = 1 THEN 0 ELSE ms[i - 1].end,
                             IF i = n + 1 THEN Len(s) ELSE ms[i].start)
    IN Join([j \in 1..(2 * n + 1) |-> IF j % 2 = 1 THEN gap((j + 1) \div 2) ELSE reps[j \div 2]])

\* the text of the k-th match
Piece(s, ms, k) == PySlice(s, ms[k].start, ms[k].end)

\* a row whose k-th cell element is replaced by its edited form, for each k that row_data has
RowWithCellsReplaced(tr_content, row_data) ==
    LET ms == FindIter(tr_content, 0, TC_OPEN, TC_CLOSE)
    IN Reassemble(tr_content, ms,
                  [k \in 1..Len(ms) |->
                      IF k <= Len(row_data)
                      THEN ModifyCellTextRegex(Piece(tr_content, ms, k), row_data[k])
                      ELSE Piece(tr_content, ms, k)])

\* a table whose k-th row element is replaced by its edited form, for each k that new_rows has
TableWithRowsReplaced(tbl_content, new_rows) ==
    LET ms == FindIter(tbl_content, 0, TR_OPEN, TR_CLOSE)
    IN Reassemble(tbl_content, ms,
                  [k \in 1..Len(ms) |->
                      IF k <= Len(new_rows)
                      THEN RowWithCellsReplaced(Piece(tbl_content, ms, k), new_rows[k])
                      ELSE Piece(tbl_content, ms, k)])

\* a section whose k-th table element is replaced by its edited form, for each k that
\* tables_data has a grid with rows for
SectionWithTablesReplaced(content, tables_data) ==
    LET ms == FindIter(content, 0, TBL_OPEN, TBL_CLOSE)
    IN Reassemble(content, ms,
                  [k \in 1..Len(ms) |->
                      IF k <= Len(tables_data) /\ tables_data[k].rows # <<>>
                      THEN TableWithRowsReplaced(Piece(content, ms, k), tables_data[k].rows)
                      ELSE Piece(content, ms, k)])

\* C22: at every nesting level (tables within a section, rows within a table, cells within a
\* row) the k-th splice replaces exactly the span of the k-th matched element in the
\* already-edited string, so the output is the input with each matched element replaced by
\* its edited form and everything between the elements kept, also when an earlier edit
\* changed the length.
C22_SplicesFollowEarlierEdits ==
    returned # None =>
        /\ call.fn = "_modify_tables_with_regex" =>
              returned.value = SectionWithTablesReplaced(call.content, call.tables_data)
        /\ call.fn = "_modify_single_table_regex" =>
              returned.value = TableWithRowsReplaced(call.tbl_content, call.new_rows)

\* the tags of the document other than those of text elements, in order, an empty-element
\* tag counted as a start tag and an end tag: the element structure apart from text elements
ElementStructure(doc) ==
    Join([i \in 1..Len(doc.toks) |->
            LET t == doc.toks[i]
            IN IF t.k = "text" THEN <<>>
               ELSE IF LocalName(t.name) = T_NAME THEN <<>>
               ELSE IF t.k = "empty"
               THEN <<[k |-> "open", name |-> t.name], [k |-> "close", name |-> t.name]>>
               ELSE <<t>>])

\* the character data of the text elements of the document
TextsOf(doc) ==
    { ElemText(doc, ElemsIn(doc, 1, Len(doc.toks), T_NAME)[n]) :
        n \in 1..CountElems(doc, T_NAME) }

\* C23: for every replacement string, also one that holds markup characters or the text of
\* a closing tag, the edited cell is well-formed and has the element structure of the input
\* apart from one synthesized text element, and the replacement is the character data of a
\* text element.
C23_ReplacementIsCharacterData ==
    (returned # None /\ call.fn = "_modify_cell_text_regex") =>
        LET in == FragmentDoc(call.tc_content)
            out == FragmentDoc(returned.value)
        IN (in.ok /\ returned.value # call.tc_content) =>
              /\ out.ok
              /\ ElementStructure(out) = ElementStructure(in)
              /\ CountElems(out, T_NAME) <= CountElems(in, T_NAME) + 1
              /\ call.new_text \in TextsOf(out)

----------------------------------------------------------------------------
(* Claims about the element that an edit of a cell changes *)

\* cout is cin outside the tokens i..j of cin
ConfinedTo(cin, cout, i, j) ==
    /\ Len(cout) >= (i - 1) + (Len(cin) - j)
    /\ SubSeq(cin, 1, i - 1) = SubSeq(cout, 1, i - 1)
    /\ SubSeq(cin, j + 1, Len(cin)) = SubSeq(cout, Len(cout) - (Len(cin) - j) + 1, Len(cout))

\* cout is cin with one element of that name inserted before token p of cin
OneInserted(cin, cout, p, name) ==
    LET n == Len(cout) - Len(cin)
    IN /\ n >= 2
       /\ ConfinedTo(cin, cout, p, p - 1)
       /\ cout[p] = OpenTag(name)
       /\ End(XmlParseTokens(cout), p) = p + n - 1

\* the edit of a cell left the cell as it was, or changed the first text element of the
\* cell and nothing else, or gave one run of a cell without text elements one new text
\* element and changed nothing else, or gave a cell without text elements and runs one
\* new run as its last child
OneElementModified(cin, cout) ==
    LET doc == XmlParseTokens(cin)
        ts == ElemsIn(doc, 2, Len(cin), T_NAME)
        runs == ElemsIn(doc, 2, Len(cin), RUN_LOCAL)
    IN \/ cout = cin
       \/ /\ ts # <<>>
          /\ ConfinedTo(cin, cout, ts[1] + 1, End(doc, ts[1]) - 1)
       \/ /\ ts = <<>>
          /\ \E k \in 1..Len(runs) : \E p \in (runs[k] + 1)..End(doc, runs[k]) :
                OneInserted(cin, cout, p, HP_T)
       \/ /\ ts = <<>>
          /\ runs = <<>>
          /\ OneInserted(cin, cout, Len(cin), HP_RUN)

\* the tokens of the c-th cell of a tree
CellOf(tree, c) ==
    LET doc == XmlParseTokens(tree)
        tc == Descendants(doc, 1, TC_NAME)[c]
    IN SubSeq(tree, tc, End(doc, tc))

CellCount(tree) == Len(Descendants(XmlParseTokens(tree), 1, TC_NAME))

\* the sections that a call of the tree editor has rewritten
RewrittenSections ==
    IF call # None /\ call.fn = "save_hwpx_with_tables_lxml" /\ returned # None
       /\ returned.tier = "lxml"
    THEN { n \in 1..Len(call.archive.sections) :
             returned.res.out.sections[n].kind = "tree" }
    ELSE {}

\* C24: per edited cell at most one element is modified, the first text element (or the
\* run that receives a new text element); every later text element and run of the cell is
\* as it was.  For _modify_cell_text_regex and for the cells of every section that
\* save_hwpx_with_tables_lxml rewrites.
C24_OneElementPerCell ==
    /\ (call # None /\ call.fn = "_modify_cell_text_regex" /\ returned # None) =>
          OneElementModified(ExpandEmpty(Tokens(call.tc_content)),
                             ExpandEmpty(Tokens(returned.value)))
    /\ \A n \in RewrittenSections :
          LET tree_in == LxmlParse(call.archive.sections[n]).tree
              tree_out == returned.res.out.sections[n].tree
          IN /\ CellCount(tree_out) = CellCount(tree_in)
             /\ \A c \in 1..CellCount(tree_in) :
                   OneElementModified(CellOf(tree_in, c), CellOf(tree_out, c))

\* the tree editor has changed the first text element of a cell with two text elements
C24_Witness ==
    \E n \in RewrittenSections :
        LET tree_in == LxmlParse(call.archive.sections[n]).tree
            tree_out == returned.res.out.sections[n].tree
        IN /\ call.archive.sections[n] = SectionXml(1, "twoT", <<>>)
           /\ CellOf(tree_out, 1) # CellOf(tree_in, 1)
           /\ OneElementModified(CellOf(tree_in, 1), CellOf(tree_out, 1))

----------------------------------------------------------------------------
(* Claims about a section that the tree editor cannot parse *)

\* a call of save_hwpx_with_tables_lxml that has run in the tree editor with target grids
TreeEditorRan ==
    /\ call # None
    /\ call.fn = "save_hwpx_with_tables_lxml"
    /\ returned # None
    /\ returned.tier = "lxml"
    /\ call.tables_data # <<>>

\* C25: when save_hwpx_with_tables_lxml cannot parse a section part, the archive written
\* holds that section as _modify_tables_with_regex edits it, and every section that
\* parses as the tree editor edits it; the section is not passed over.
C25_UnparsedSectionGetsPatternEdit ==
    TreeEditorRan =>
        \A n \in 1..Len(call.archive.sections) :
            LET bytes == call.archive.sections[n]
                written == returned.res.out.sections[n]
            IN IF LxmlParse(bytes).ok
               THEN written = Rewritten(LxmlTableLoop(LxmlParse(bytes).tree, 0,
                                                      call.tables_data))
               ELSE ~ReadText(bytes).raised =>
                       /\ written.kind = "bytes"
                       /\ written.bytes =
                             WriteText(ModifyTablesWithRegex(ReadText(bytes).text,
                                                             call.tables_data))

----------------------------------------------------------------------------
(* Claims about two callers at one session *)

\* both callers sent edit_table_cell and both have been answered with success
BothStored ==
    /\ Racing
    /\ \A p \in Callers :
          /\ inflight[p].op = "edit_table_cell"
          /\ inflight[p].pc = "done"
          /\ inflight[p].code = 200

\* the list that an edit request stored is its edit applied to the list that it loaded
StoredItsEdit(w) ==
    LET r == inflight[w.by]
    IN r.op = "edit_table_cell" =>
          w.tables = SetCell(r.loaded, r.table_index, r.row, r.col, r.value).tables

\* C26: when two edit_table_cell requests on one session interleave their load and store steps, the list
\* file after both have finished holds the complete list that the request that stored
\* last wrote, and that list is that request's edit applied to the list that it loaded.
C26_LastWriterWins ==
    BothStored =>
        /\ Len(writes) = Cardinality(Callers)
        /\ temp[RacePath] = JsonList(Last(writes).tables)
        /\ \A k \in 1..Len(writes) : StoredItsEdit(writes[k])

----------------------------------------------------------------------------
(* Claims about the numbering of the tables by the reader and by the editor *)

\* the offset in content of the tag that is the i-th token of toks: every '<' of the
\* documents of the model starts a tag
TagStart(content, toks, i) ==
    Offsets(content, "<")[Cardinality({ j \in 1..i : toks[j].k # "text" })]

\* the tbl elements of a section that _extract_tables_from_xml appends a grid for, in the
\* order of the grids
ReaderTables(doc) ==
    SelectSeq(ElemsIn(doc, 1, Len(doc.toks), TBL_NAME),
              LAMBDA tbl : ParseTableElement(doc, tbl).rows # <<>>)

\* the i-th table of a section for the reader and for the editor are the same element:
\* the editor's i-th match starts at the start tag of the element of the reader's i-th grid
SameNumbering(bytes) ==
    LET content == DecodeUtf8(bytes).text
        doc == XmlParse(content)
        grids == ParseSectionXml(bytes).tables
        matches == FindIter(content, 0, TBL_OPEN, TBL_CLOSE)
    IN \A i \in 1..Len(grids) :
          /\ i <= Len(matches)
          /\ matches[i].start = TagStart(content, doc.toks, ReaderTables(doc)[i])

\* C27: for every section, the i-th grid that parse_hwpx returns for the section is the
\* grid of the tbl element that _modify_tables_with_regex takes as the i-th table of the
\* section, also with a tbl element without cells and with a table inside a cell.
C27_ReaderAndEditorNumberAlike ==
    (call # None /\ call.fn = "parse_hwpx" /\ returned # None /\ returned.value.success) =>
        /\ returned.value.tables =
              Join([n \in 1..Len(call.archive.sections) |->
                      ParseSectionXml(call.archive.sections[n]).tables])
        /\ \A n \in 1..Len(call.archive.sections) : SameNumbering(call.archive.sections[n])

----------------------------------------------------------------------------
(* Claims about the table-open state of parse_tables *)

\* a step of parse_tables that starts with in_table set
StepInTable == pc = "run" /\ in_table /\ last_rec' # last_rec

\* what the finalization at the end of a section adds to tables
Finalized ==
    IF current_table_info # None /\ current_cells_data # <<>>
       /\ BuildTableFromCells(current_table_info, current_cells_data, section_idx) # None
    THEN Append(tables,
                BuildTableFromCells(current_table_info, current_cells_data, section_idx))
    ELSE tables

\* C28: in parse_tables in_table, once set, stays set until the section ends; every later
\* text record of the section is appended to the last cell opened, whatever lies between;
\* in_table is reset only at the start of the next section, where the table in progress
\* has been finalized.
C28_TableStateLastsToSectionEnd ==
    [][ StepInTable =>
          /\ last_rec'.type # "EndSection" => in_table'
          /\ (last_rec'.type = "ParaText" /\ last_rec'.text_parts # <<>>
              /\ current_cells_data # <<>>) =>
                current_cells_data' =
                    [current_cells_data EXCEPT ![Len(current_cells_data)].text =
                        @ \o Join(last_rec'.text_parts)]
          /\ ~in_table' =>
                /\ last_rec'.type = "EndSection"
                /\ section_idx' = section_idx + 1
                /\ tables' = Finalized
                /\ current_cells_data' = <<>>
                /\ current_table_info' = None ]_vars

\* a text record has been appended to a cell that held the text of an earlier record
C28_Witness ==
    /\ pc = "run"
    /\ in_table
    /\ last_rec.type = "ParaText"
    /\ last_rec.text_parts # <<>>
    /\ current_cells_data # <<>>
    /\ Last(current_cells_data).text # Join(last_rec.text_parts)
    /\ Len(Last(current_cells_data).text) > Len(Join(last_rec.text_parts))

----------------------------------------------------------------------------
(* Claims about the grid list of a session over a series of requests *)

\* the session named id as the requests on it have left it: sessions holds for every
\* session the grids of its upload with the successful update_tables and edit_table_cell
\* requests on it applied in order
SessionOf(id) == sessions[CHOOSE k \in 1..Len(sessions) : sessions[k].id = id]

\* the last request had that op, named a session that an upload created, and was answered
Answered(op) ==
    /\ request # None
    /\ request.op = op
    /\ Created(request.session_id)
    /\ response # None

\* what get_tables returns and what download_hwpx hands to the editor
CurrentGridsServed ==
    /\ (Answered("get_tables") /\ response.code = 200) =>
          response.tables = JsonList(SessionOf(request.session_id).tables)
    /\ (Answered("download_hwpx") /\ "tables" \in DOMAIN response) =>
          response.tables = SessionOf(request.session_id).tables

\* the grids of the sessions follow the requests: a successful edit_table_cell sets the
\* cell in the grids of its session, a successful update_tables replaces them, and nothing
\* else changes the grids of a session
GridsFollowRequests ==
    \A k \in 1..Len(sessions) :
        LET mine == request'.session_id = sessions[k].id /\ response'.code = 200
        IN sessions'[k].tables =
              IF request'.op = "edit_table_cell" /\ mine
              THEN SetCell(sessions[k].tables, request'.table_index, request'.row,
                           request'.col, request'.value).tables
              ELSE IF request'.op = "update_tables" /\ mine THEN request'.tables
              ELSE sessions[k].tables

\* C29: after any series of successful update_tables and edit_table_cell requests on a
\* session, get_tables returns the grids of the upload with those requests applied in
\* order, and download_hwpx hands exactly that list to the archive editor, not the copy
\* in the session record.
C29_CurrentGridsAreServedAndSaved ==
    /\ []CurrentGridsServed
    /\ [][request' # request => GridsFollowRequests]_vars

\* download_hwpx has handed the editor a list that differs from the copy of the upload
C29_Witness ==
    /\ Answered("download_hwpx")
    /\ response.code = 200
    /\ temp[SessionJsonPath(request.session_id)].kind = "dict"
    /\ response.tables # temp[SessionJsonPath(request.session_id)].value.tables

----------------------------------------------------------------------------
(* Claims about the isolation of the sessions *)

\* the text and the grids that the endpoints use for a session are those that the
\* requests on that session have left
OwnTextAndGrids(ses) ==
    /\ temp[JsonPath(ses.id)] = JsonList(ses.tables)
    /\ temp[TextPath(ses.id)] = TextFile(ses.text)

\* the original file that the downloads of a session use is the file of its upload
OwnOriginal(ses) == uploads[ses.filename] = ses.file

\* C30: the sessions are isolated: the original file, the text and the grids that the
\* download and edit operations of a session use are changed by no operation on another
\* session and by no later upload; a second upload of a file with the same name does not
\* replace the original file of the first session.
C30_SessionsAreIsolated ==
    \A k \in 1..Len(sessions) :
        /\ OwnTextAndGrids(sessions[k])
        /\ OwnOriginal(sessions[k])

====
